---- MODULE Spec2Model ----
(***************************************************************************)
(* Model of the SDFG translator's internal graph IR                        *)
(* (lib/SDFG/Translate/Node.cpp): connector nodes, scopes (State,          *)
(* MapEntry, ConsumeEntry), lazy connector lookup, deferred write routing  *)
(* and scope closing.                                                      *)
(*                                                                         *)
(* Every node object has an identity (its index in obj); a scope's own     *)
(* lists (nodes, edges, lut, writeQueue) are kept per identity.  The       *)
(* engine's methods are operators from a graph record G to a graph record, *)
(* the builder that drives them is the set of actions.                     *)
(***************************************************************************)
EXTENDS Integers, Sequences, FiniteSets, TLC

\* Number of builder operations (instructions translated) in one run.
MaxOps == 4
\* Nesting depth of map/consume scopes below the State.
MaxDepth == 2

\* The MLIR values the builder refers to (data containers defined by AllocOp).
Values == {1, 2}

VARIABLES
  obj,         \* identity -> node record (NodeImpl / ConnectorNodeImpl fields)
  nodes,       \* scope identity -> ScopeNodeImpl::nodes / MapEntryImpl::nodes
  edges,       \* scope identity -> ScopeNodeImpl::edges / MapEntryImpl::edges
  lut,         \* scope identity -> value name -> Connector
  writeQueue,  \* map entry identity -> pending writes <<from, to, mapValue>>
  diag,        \* diagnostics reported through emitError
  stack,       \* the builder's open scopes, innermost last
  nops,        \* number of builder operations issued
  last,        \* the last engine call: operation, arguments, result, graph before
  prev,        \* the engine call before it
  prog,        \* the module handed to translateToSDFG: its top-level units
  pc,          \* the translator's position in prog
  result,      \* "running", then the LogicalResult returned ("success"/"failure")
  jemit,       \* the emission stream: the tokens appended so far
  array,       \* the Array entity handed to Array::emit
  edge,        \* the MultiEdge handed to MultiEdge::emit
  tasklet,     \* the TaskletNode handed to translateToSDFG(TaskletNode)
  dialectOp,   \* the operation handed to the dialect verifier
  sdfgs        \* SDFG identity -> SDFGImpl fields

\* The variables of the graph builder, and those of emission and translation.
builderVars == <<obj, nodes, edges, lut, writeQueue, stack, nops, last, prev>>
emitVars == <<prog, pc, result, jemit, array>>
entityVars == <<edge, tasklet, dialectOp, sdfgs>>

vars == <<obj, nodes, edges, lut, writeQueue, diag, stack, nops, last, prev,
          prog, pc, result, jemit, array, edge, tasklet, dialectOp, sdfgs>>

-----------------------------------------------------------------------------
\* Names

ValueNames == <<"v0", "v1", "v2", "v3">>
valueToString(v) == ValueNames[v]

Digit == <<"0", "1", "2", "3", "4", "5", "6", "7", "8", "9">>
RECURSIVE to_string(_)
to_string(n) ==
  IF n < 10 THEN Digit[n + 1] ELSE to_string(n \div 10) \o Digit[(n % 10) + 1]

-----------------------------------------------------------------------------
\* Connector, MultiEdge

NullConnector(p) ==
  [parent |-> p, name |-> "null", data |-> "", ranges |-> <<>>, isNull |-> TRUE]

NamedConnector(p, n) ==
  [parent |-> p, name |-> n, data |-> "", ranges |-> <<>>, isNull |-> FALSE]

setData(c, d) == [c EXCEPT !.data = d]
setRanges(c, r) == [c EXCEPT !.ranges = r]

\* Connector::operator==
ConnEq(a, b) == a.parent = b.parent /\ a.name = b.name

MultiEdge(src, dst) == [source |-> src, destination |-> dst, depEdge |-> FALSE]

-----------------------------------------------------------------------------
\* Node objects

EntryTypes == {"MapEntry", "ConsumeEntry"}
ExitTypes == {"MapExit", "ConsumeExit"}

NodeRec(type, name, init) ==
  [type |-> type, parent |-> 0, id |-> -1, name |-> name, init |-> init,
   inConnectors |-> <<>>, outConnectors |-> <<>>, link |-> 0]

EmptyLut == [k \in {} |-> NullConnector(0)]

\* The graph as one value: what the engine's methods read and write.
Graph == [obj |-> obj, nodes |-> nodes, edges |-> edges, lut |-> lut,
          writeQueue |-> writeQueue, diag |-> diag]

\* Construction of a node object; its identity is Len(G.obj) + 1.
alloc(G, rec) ==
  [G EXCEPT !.obj = Append(@, rec), !.nodes = Append(@, <<>>),
            !.edges = Append(@, <<>>), !.lut = Append(@, EmptyLut),
            !.writeQueue = Append(@, <<>>)]

fresh(G) == Len(G.obj) + 1

emitError(G, msg) == [G EXCEPT !.diag = @ \cup {msg}]

-----------------------------------------------------------------------------
\* ConnectorNodeImpl

\* The loop of addInConnector/addOutConnector over the connectors held:
\* returns at the first equal connector, reports every conflicting one met
\* before that, and otherwise falls through to push_back.
SameSlot(cs, c) == {i \in 1..Len(cs) : cs[i].name = c.name /\ cs[i].parent = c.parent}
EqualAt(cs, c) == {i \in SameSlot(cs, c) : ConnEq(cs[i], c)}
FirstEqual(cs, c) ==
  IF EqualAt(cs, c) = {} THEN Len(cs) + 1
  ELSE CHOOSE i \in EqualAt(cs, c) : \A j \in EqualAt(cs, c) : i <= j
ConflictMet(cs, c) ==
  \E i \in SameSlot(cs, c) : ~ConnEq(cs[i], c) /\ i < FirstEqual(cs, c)

\* addInConnector without the loop over the connectors already held.
addInConnectorNoCheck(G, n, c) ==
  [G EXCEPT !.obj[n].inConnectors = Append(@, c)]

addInConnector(G, n, c) ==
  LET cs == G.obj[n].inConnectors
      G1 == IF ConflictMet(cs, c)
            THEN emitError(G, "Conflicting duplicate connectors in ConnectorNodeImpl::addInConnector")
            ELSE G
  IN IF EqualAt(cs, c) # {} THEN G1
     ELSE [G1 EXCEPT !.obj[n].inConnectors = Append(@, c)]

addOutConnector(G, n, c) ==
  LET cs == G.obj[n].outConnectors
      G1 == IF ConflictMet(cs, c)
            THEN emitError(G, "Conflicting duplicate connectors in ConnectorNodeImpl::addOutConnector")
            ELSE G
  IN IF EqualAt(cs, c) # {} THEN G1
     ELSE [G1 EXCEPT !.obj[n].outConnectors = Append(@, c)]

getInConnectorCount(G, n) == Len(G.obj[n].inConnectors)
getOutConnectorCount(G, n) == Len(G.obj[n].outConnectors)

-----------------------------------------------------------------------------
\* Node::getState

RECURSIVE getState(_, _)
getState(G, n) ==
  IF G.obj[n].type = "State" THEN n ELSE getState(G, G.obj[n].parent)

-----------------------------------------------------------------------------
\* addNode

\* addNode that stores the node but leaves its id as constructed.
ScopeNodeImpl_addNode_noID(G, s, n) ==
  [G EXCEPT !.nodes[s] = Append(@, n)]

ScopeNodeImpl_addNode(G, s, n) ==
  [G EXCEPT !.obj[n].id = Len(G.nodes[s]), !.nodes[s] = Append(@, n)]

\* parent.getState().addNode(node) goes through ScopeNode::addNode, whose
\* setParent is skipped because the parent has just been set.
MapEntryImpl_addNode(G, s, n) ==
  LET G1 == [G EXCEPT !.obj[n].parent = s]
      G2 == ScopeNodeImpl_addNode(G1, getState(G1, G1.obj[s].parent), n)
  IN [G2 EXCEPT !.nodes[s] = Append(@, n)]

ConsumeEntryImpl_addNode(G, s, n) ==
  LET G1 == [G EXCEPT !.obj[n].parent = s]
  IN ScopeNodeImpl_addNode(G1, getState(G1, G1.obj[s].parent), n)

ScopeNode_addNode(G, s, n) ==
  LET G1 == IF G.obj[n].parent = 0 THEN [G EXCEPT !.obj[n].parent = s] ELSE G
  IN CASE G.obj[s].type = "MapEntry" -> MapEntryImpl_addNode(G1, s, n)
       [] G.obj[s].type = "ConsumeEntry" -> ConsumeEntryImpl_addNode(G1, s, n)
       [] OTHER -> ScopeNodeImpl_addNode(G1, s, n)

-----------------------------------------------------------------------------
\* addEdge

ScopeNodeImpl_addEdge(G, s, e) == [G EXCEPT !.edges[s] = Append(@, e)]

MapEntryImpl_addEdge(G, s, e) ==
  LET G1 == ScopeNodeImpl_addEdge(G, getState(G, G.obj[s].parent), e)
  IN [G1 EXCEPT !.edges[s] = Append(@, e)]

ConsumeEntryImpl_addEdge(G, s, e) ==
  ScopeNodeImpl_addEdge(G, getState(G, G.obj[s].parent), e)

ScopeNode_addEdge(G, s, e) ==
  CASE G.obj[s].type = "MapEntry" -> MapEntryImpl_addEdge(G, s, e)
    [] G.obj[s].type = "ConsumeEntry" -> ConsumeEntryImpl_addEdge(G, s, e)
    [] OTHER -> ScopeNodeImpl_addEdge(G, s, e)

-----------------------------------------------------------------------------
\* mapConnector

mapConnector(G, s, v, c) ==
  LET key == valueToString(v)
      l == G.lut[s]
  IN IF key \in DOMAIN l
     THEN [G EXCEPT !.lut[s] = [l EXCEPT ![key] = c]]
     ELSE [G EXCEPT !.lut[s] = [k \in DOMAIN l \cup {key} |->
                                  IF k = key THEN c ELSE l[k]]]

Mapped(G, s, v) == valueToString(v) \in DOMAIN G.lut[s]

-----------------------------------------------------------------------------
\* lookup

\* What the builder's values denote: value v is the result of an AllocOp
\* without a name attribute; value 1 carries the init attribute.
ArrayName(v) == valueToString(v)
ValueInit(v) == v = 1

\* The connector read through lut.end() when the key is missing.
UndefConnector == [parent |-> 0, name |-> "<end>", data |-> "", ranges |-> <<>>,
                   isNull |-> TRUE]

ScopeNodeImpl_lookup(G, s, v) ==
  IF ~Mapped(G, s, v)
  THEN [g |-> emitError(G, "Tried to lookup nonexistent value in ScopeNodeImpl::lookup"),
        r |-> UndefConnector]
  ELSE [g |-> G, r |-> G.lut[s][valueToString(v)]]

\* A State lookup that creates the Access node without adding it to the
\* State's node list.
StateImpl_lookup_notAdded(G, s, v) ==
  IF ~Mapped(G, s, v)
  THEN LET a == fresh(G)
           G1 == alloc(G, NodeRec("Access", ArrayName(v), ValueInit(v)))
           accOut == setData(NullConnector(a), ArrayName(v))
           G3 == addOutConnector(G1, a, accOut)
       IN [g |-> G3, r |-> accOut]
  ELSE ScopeNodeImpl_lookup(G, s, v)

StateImpl_lookup(G, s, v) ==
  IF ~Mapped(G, s, v)
  THEN LET a == fresh(G)
           G1 == alloc(G, NodeRec("Access", ArrayName(v), ValueInit(v)))
           G2 == ScopeNodeImpl_addNode(G1, s, a)
           accOut == setData(NullConnector(a), ArrayName(v))
           G3 == addOutConnector(G2, a, accOut)
       IN [g |-> G3, r |-> accOut]
  ELSE ScopeNodeImpl_lookup(G, s, v)

RECURSIVE ScopeNode_lookup(_, _, _)

\* A lookup that records the hop edge in the map itself, not in its parent.
MapEntryImpl_lookup_ownScope(G, s, v) ==
  IF ~Mapped(G, s, v)
  THEN LET scope == G.obj[s].parent
           R == ScopeNode_lookup(G, scope, v)
           srcConn == R.r
           dstConn == setData(NamedConnector(s, "IN_" \o valueToString(v)), srcConn.data)
           G1 == addInConnector(R.g, s, dstConn)
           G2 == ScopeNode_addEdge(G1, s, MultiEdge(srcConn, dstConn))
           outConn == setRanges(setData(NamedConnector(s, "OUT_" \o valueToString(v)),
                                        srcConn.data), srcConn.ranges)
           G3 == addOutConnector(G2, s, outConn)
           G4 == mapConnector(G3, s, v, outConn)
       IN ScopeNodeImpl_lookup(G4, s, v)
  ELSE ScopeNodeImpl_lookup(G, s, v)

MapEntryImpl_lookup(G, s, v) ==
  IF ~Mapped(G, s, v)
  THEN LET scope == G.obj[s].parent
           R == ScopeNode_lookup(G, scope, v)
           srcConn == R.r
           dstConn == setData(NamedConnector(s, "IN_" \o valueToString(v)), srcConn.data)
           G1 == addInConnector(R.g, s, dstConn)
           G2 == ScopeNode_addEdge(G1, scope, MultiEdge(srcConn, dstConn))
           outConn == setRanges(setData(NamedConnector(s, "OUT_" \o valueToString(v)),
                                        srcConn.data), srcConn.ranges)
           G3 == addOutConnector(G2, s, outConn)
           G4 == mapConnector(G3, s, v, outConn)
       IN ScopeNodeImpl_lookup(G4, s, v)
  ELSE ScopeNodeImpl_lookup(G, s, v)

ConsumeEntryImpl_lookup(G, s, v) ==
  IF ~Mapped(G, s, v)
  THEN LET scope == G.obj[s].parent
           R == ScopeNode_lookup(G, scope, v)
           srcConn == R.r
           dstConn == setRanges(setData(NamedConnector(s, "IN_" \o valueToString(v)),
                                        srcConn.data), srcConn.ranges)
           G1 == addInConnector(R.g, s, dstConn)
           G2 == ScopeNode_addEdge(G1, scope, MultiEdge(srcConn, dstConn))
           outConn == setRanges(setData(NamedConnector(s, "OUT_" \o valueToString(v)),
                                        dstConn.data), dstConn.ranges)
           G3 == addOutConnector(G2, s, outConn)
           G4 == mapConnector(G3, s, v, outConn)
       IN ScopeNodeImpl_lookup(G4, s, v)
  ELSE ScopeNodeImpl_lookup(G, s, v)

ScopeNode_lookup(G, s, v) ==
  CASE G.obj[s].type = "MapEntry" -> MapEntryImpl_lookup(G, s, v)
    [] G.obj[s].type = "ConsumeEntry" -> ConsumeEntryImpl_lookup(G, s, v)
    [] OTHER -> StateImpl_lookup(G, s, v)

-----------------------------------------------------------------------------
\* routeWrite

\* A State write that wires the Access node but does not rebind the value.
ScopeNodeImpl_routeWrite_unmapped(G, s, from, to, v) ==
  LET G1 == ScopeNodeImpl_addNode(G, s, to.parent)
      G2 == ScopeNodeImpl_addEdge(G1, s, MultiEdge(from, to))
      out == setData(NullConnector(to.parent), to.data)
  IN addOutConnector(G2, to.parent, out)

ScopeNodeImpl_routeWrite(G, s, from, to, v) ==
  LET G1 == ScopeNodeImpl_addNode(G, s, to.parent)
      G2 == ScopeNodeImpl_addEdge(G1, s, MultiEdge(from, to))
      out == setData(NullConnector(to.parent), to.data)
      G3 == addOutConnector(G2, to.parent, out)
  IN mapConnector(G3, s, v, out)

\* A map write that wires the local Access node but forgets to queue the
\* write for the closing step.
MapEntryImpl_routeWrite_unqueued(G, s, from, to, v) ==
  LET toAcc == G.obj[to.parent]
      a == fresh(G)
      G1 == alloc(G, NodeRec("Access", toAcc.name, toAcc.init))
      accIn == setRanges(setData(NullConnector(a), to.data), to.ranges)
      G2 == addInConnector(G1, a, accIn)
      G3 == MapEntryImpl_addNode(G2, s, a)
      G4 == MapEntryImpl_addEdge(G3, s, MultiEdge(from, accIn))
      accOut == setData(NullConnector(a), to.data)
      G5 == addOutConnector(G4, a, accOut)
  IN mapConnector(G5, s, v, accOut)

MapEntryImpl_routeWrite(G, s, from, to, v) ==
  LET toAcc == G.obj[to.parent]
      a == fresh(G)
      G1 == alloc(G, NodeRec("Access", toAcc.name, toAcc.init))
      accIn == setRanges(setData(NullConnector(a), to.data), to.ranges)
      G2 == addInConnector(G1, a, accIn)
      G3 == MapEntryImpl_addNode(G2, s, a)
      G4 == MapEntryImpl_addEdge(G3, s, MultiEdge(from, accIn))
      accOut == setData(NullConnector(a), to.data)
      G5 == addOutConnector(G4, a, accOut)
      G6 == mapConnector(G5, s, v, accOut)
  IN [G6 EXCEPT !.writeQueue[s] = Append(@, <<accOut, setRanges(to, <<>>), v>>)]

RECURSIVE ScopeNode_routeWrite(_, _, _, _, _)

ConsumeEntryImpl_routeWrite(G, s, from, to, v) ==
  LET consumeExit == G.obj[s].link
      in == setRanges(setData(NamedConnector(consumeExit,
                "IN_" \o to_string(getInConnectorCount(G, consumeExit))), from.data),
              from.ranges)
      G1 == addInConnector(G, consumeExit, in)
      G2 == ConsumeEntryImpl_addEdge(G1, s, MultiEdge(from, in))
      out == setRanges(setData(NamedConnector(consumeExit,
                "OUT_" \o to_string(getOutConnectorCount(G2, consumeExit))), in.data),
              in.ranges)
      G3 == addOutConnector(G2, consumeExit, out)
  IN ScopeNode_routeWrite(G3, G.obj[s].parent, out, to, v)

ScopeNode_routeWrite(G, s, from, to, v) ==
  CASE G.obj[s].type = "MapEntry" -> MapEntryImpl_routeWrite(G, s, from, to, v)
    [] G.obj[s].type = "ConsumeEntry" -> ConsumeEntryImpl_routeWrite(G, s, from, to, v)
    [] OTHER -> ScopeNodeImpl_routeWrite(G, s, from, to, v)

\* routeOut that wires the exit but never hands the write to the parent.
MapEntryImpl_routeOut_unforwarded(G, s, from, to, v) ==
  LET mapExit == G.obj[s].link
      in == setData(NamedConnector(mapExit, "IN_" \o valueToString(v)), from.data)
      G1 == addInConnector(G, mapExit, in)
      G2 == MapEntryImpl_addEdge(G1, s, MultiEdge(from, in))
      out == setRanges(setData(NamedConnector(mapExit, "OUT_" \o valueToString(v)),
                               from.data), from.ranges)
  IN addOutConnector(G2, mapExit, out)

MapEntryImpl_routeOut(G, s, from, to, v) ==
  LET mapExit == G.obj[s].link
      in == setData(NamedConnector(mapExit, "IN_" \o valueToString(v)), from.data)
      G1 == addInConnector(G, mapExit, in)
      G2 == MapEntryImpl_addEdge(G1, s, MultiEdge(from, in))
      out == setRanges(setData(NamedConnector(mapExit, "OUT_" \o valueToString(v)),
                               from.data), from.ranges)
      G3 == addOutConnector(G2, mapExit, out)
  IN ScopeNode_routeWrite(G3, G.obj[s].parent, out, to, v)

-----------------------------------------------------------------------------
\* addDependency

makeDependence(e) == [e EXCEPT !.depEdge = TRUE]

\* An ordering edge added without makeDependence: an ordinary data edge.
ScopeNodeImpl_addDependency_dataEdge(G, s, v, c) ==
  LET R == StateImpl_lookup(G, s, v)
  IN ScopeNodeImpl_addEdge(R.g, s, MultiEdge(R.r, c))

\* lookup is the State's own (it creates the Access node on a miss).
ScopeNodeImpl_addDependency(G, s, v, c) ==
  LET R == StateImpl_lookup(G, s, v)
  IN ScopeNodeImpl_addEdge(R.g, s, makeDependence(MultiEdge(R.r, c)))

RECURSIVE ScopeNode_addDependency(_, _, _, _)

MapEntryImpl_addDependency(G, s, v, c) ==
  IF ~Mapped(G, s, v)
  THEN LET mapIn == NullConnector(s)
           G1 == addInConnector(G, s, mapIn)
           mapOut == NullConnector(s)
           G2 == addOutConnector(G1, s, mapOut)
           G3 == MapEntryImpl_addEdge(G2, s, makeDependence(MultiEdge(mapOut, c)))
       IN ScopeNode_addDependency(G3, G.obj[s].parent, v, mapIn)
  ELSE LET R == ScopeNode_lookup(G, s, v)
       IN MapEntryImpl_addEdge(R.g, s, makeDependence(MultiEdge(R.r, c)))

ConsumeEntryImpl_addDependency(G, s, v, c) ==
  IF ~Mapped(G, s, v)
  THEN LET consIn == NullConnector(s)
           G1 == addInConnector(G, s, consIn)
           consOut == NullConnector(s)
           G2 == addOutConnector(G1, s, consOut)
           G3 == ConsumeEntryImpl_addEdge(G2, s, makeDependence(MultiEdge(consOut, c)))
       IN ScopeNode_addDependency(G3, G.obj[s].parent, v, consIn)
  ELSE LET R == ScopeNode_lookup(G, s, v)
       IN ConsumeEntryImpl_addEdge(R.g, s, makeDependence(MultiEdge(R.r, c)))

ScopeNode_addDependency(G, s, v, c) ==
  CASE G.obj[s].type = "MapEntry" -> MapEntryImpl_addDependency(G, s, v, c)
    [] G.obj[s].type = "ConsumeEntry" -> ConsumeEntryImpl_addDependency(G, s, v, c)
    [] OTHER -> ScopeNodeImpl_addDependency(G, s, v, c)

-----------------------------------------------------------------------------
\* connectDanglingNodes

HasSource(es, n) == \E k \in 1..Len(es) : es[k].source.parent = n
HasDestination(es, n) == \E k \in 1..Len(es) : es[k].destination.parent = n

\* A flush that routes every pending write out, read inside the map or not.
RECURSIVE FlushWrites_all(_, _, _)
FlushWrites_all(G, s, i) ==
  IF i > Len(G.writeQueue[s]) THEN G
  ELSE LET w == G.writeQueue[s][i]
       IN FlushWrites_all(MapEntryImpl_routeOut(G, s, w[1], w[2], w[3]), s, i + 1)

\* A flush that looks for an edge into the write's Access node instead of
\* one out of it.
RECURSIVE FlushWrites_testsDestination(_, _, _)
FlushWrites_testsDestination(G, s, i) ==
  IF i > Len(G.writeQueue[s]) THEN G
  ELSE LET w == G.writeQueue[s][i]
           skip == HasDestination(G.edges[s], w[1].parent)
       IN FlushWrites_testsDestination(
            IF skip THEN G ELSE MapEntryImpl_routeOut(G, s, w[1], w[2], w[3]), s, i + 1)

\* "Connect all pending writes that are not read in this map."
RECURSIVE FlushWrites(_, _, _)
FlushWrites(G, s, i) ==
  IF i > Len(G.writeQueue[s]) THEN G
  ELSE LET w == G.writeQueue[s][i]
           skip == HasSource(G.edges[s], w[1].parent)
       IN FlushWrites(IF skip THEN G ELSE MapEntryImpl_routeOut(G, s, w[1], w[2], w[3]),
                      s, i + 1)

\* "Connect all nodes without an ingoing edge."
RECURSIVE ConnectIngoing(_, _, _, _)
ConnectIngoing(G, s, i, mapEntryNull) ==
  IF i > Len(G.nodes[s]) THEN G
  ELSE LET node == G.nodes[s][i]
           skip == HasDestination(G.edges[s], node)
                   \/ G.obj[node].type \in {"ConsumeExit", "MapExit"}
           connector == NullConnector(node)
           G1 == addInConnector(G, node, NullConnector(node))
           G2 == MapEntryImpl_addEdge(G1, s, MultiEdge(mapEntryNull, connector))
       IN ConnectIngoing(IF skip THEN G ELSE G2, s, i + 1, mapEntryNull)

\* The outgoing loop with the ingoing loop's test left in: it looks for an
\* edge into the node instead of one out of it.
RECURSIVE ConnectOutgoing_testsIngoing(_, _, _, _)
ConnectOutgoing_testsIngoing(G, s, i, mapExitNull) ==
  IF i > Len(G.nodes[s]) THEN G
  ELSE LET node == G.nodes[s][i]
           skip == HasDestination(G.edges[s], node)
                   \/ G.obj[node].type \in {"ConsumeEntry", "MapEntry"}
           connector == NullConnector(node)
           G1 == addOutConnector(G, node, NullConnector(node))
           G2 == MapEntryImpl_addEdge(G1, s, MultiEdge(connector, mapExitNull))
       IN ConnectOutgoing_testsIngoing(IF skip THEN G ELSE G2, s, i + 1, mapExitNull)

\* "Connect all nodes without an outgoing edge."
RECURSIVE ConnectOutgoing(_, _, _, _)
ConnectOutgoing(G, s, i, mapExitNull) ==
  IF i > Len(G.nodes[s]) THEN G
  ELSE LET node == G.nodes[s][i]
           skip == HasSource(G.edges[s], node)
                   \/ G.obj[node].type \in {"ConsumeEntry", "MapEntry"}
           connector == NullConnector(node)
           G1 == addOutConnector(G, node, NullConnector(node))
           G2 == MapEntryImpl_addEdge(G1, s, MultiEdge(connector, mapExitNull))
       IN ConnectOutgoing(IF skip THEN G ELSE G2, s, i + 1, mapExitNull)

\* A closing step that wires writes and stragglers but leaves out the edge
\* between the entry's and the exit's null connectors.
connectDanglingNodes_noEntryExitEdge(G, s) ==
  LET exit == G.obj[s].link
      mapEntryNull == NullConnector(G.obj[exit].link)
      G1 == addOutConnector(G, s, mapEntryNull)
      mapExitNull == NullConnector(exit)
      G2 == addOutConnector(G1, exit, mapExitNull)
      G4 == FlushWrites(G2, s, 1)
      G5 == ConnectIngoing(G4, s, 1, mapEntryNull)
  IN ConnectOutgoing(G5, s, 1, mapExitNull)

connectDanglingNodes(G, s) ==
  LET exit == G.obj[s].link
      mapEntryNull == NullConnector(G.obj[exit].link)
      G1 == addOutConnector(G, s, mapEntryNull)
      mapExitNull == NullConnector(exit)
      G2 == addOutConnector(G1, exit, mapExitNull)
      G3 == MapEntryImpl_addEdge(G2, s, MultiEdge(mapEntryNull, mapExitNull))
      G4 == FlushWrites(G3, s, 1)
      G5 == ConnectIngoing(G4, s, 1, mapEntryNull)
  IN ConnectOutgoing(G5, s, 1, mapExitNull)

-----------------------------------------------------------------------------
\* Array::emit: the "shape" and "strides" lists of a data container.

\* intStrideIdx and symStrideIdx are unsigned: size() - 1 of an empty list and
\* the decrement past 0 wrap around.  The wrapped index is written -1 here;
\* it is above every list's size, so reading with it would leave the list.
\* A stride is the text f1 * f2 * ..., kept as the list of its factors.
Times(stride, factor) == Append(stride, factor)

\* The loop over shape.getShape(): i is the dimension (from 0), st the
\* loop's variables.
RECURSIVE Array_emit_loop(_, _, _)
Array_emit_loop(a, i, st) ==
  IF i >= Len(a.shape) THEN st
  ELSE IF a.shape[i + 1]
  THEN LET printed == Append(st.shapeList, to_string(a.integers[st.intIdx + 1]))
           pushed == IF i > 0
                     THEN Append(st.strideList,
                            Times(st.strideList[Len(st.strideList)],
                                  to_string(a.integers[st.intStrideIdx + 1])))
                     ELSE st.strideList
       IN Array_emit_loop(a, i + 1,
            [st EXCEPT !.shapeList = printed, !.strideList = pushed,
                       !.intStrideIdx = IF i > 0 THEN @ - 1 ELSE @,
                       !.intIdx = @ + 1])
  ELSE LET printed == Append(st.shapeList, a.symbols[st.symIdx + 1])
           pushed == IF i > 0
                     THEN Append(st.strideList,
                            Times(st.strideList[Len(st.strideList)],
                                  a.symbols[st.symStrideIdx + 1]))
                     ELSE st.strideList
       IN Array_emit_loop(a, i + 1,
            [st EXCEPT !.shapeList = printed, !.strideList = pushed,
                       !.symStrideIdx = IF i > 0 THEN @ - 1 ELSE @,
                       !.symIdx = @ + 1])

Reverse(q) == [k \in 1..Len(q) |-> q[Len(q) + 1 - k]]

\* The two lists Array::emit prints; "strides" is printed for a non-empty
\* shape only, from the back of strideList to its front.
Array_emit(a) ==
  LET st == Array_emit_loop(a, 0,
              [shapeList |-> IF Len(a.shape) = 0 THEN <<"1">> ELSE <<>>,
               strideList |-> << <<"1">> >>,
               intIdx |-> 0, symIdx |-> 0,
               intStrideIdx |-> Len(a.integers) - 1,
               symStrideIdx |-> Len(a.symbols) - 1])
  IN [shape |-> st.shapeList,
      strides |-> IF Len(a.shape) # 0 THEN Reverse(st.strideList) ELSE <<>>]

-----------------------------------------------------------------------------
\* The builder: one action per instruction kind it translates.

cur == stack[Len(stack)]
Depth == Len(stack) - 1

NoConn == NullConnector(0)
Call(op, s, v, ret, from, to) ==
  [op |-> op, scope |-> s, value |-> v, ret |-> ret, from |-> from, to |-> to,
   pre |-> Graph]
Forget(c) == [c EXCEPT !.pre = 0]

SetGraph(G) ==
  /\ obj' = G.obj
  /\ nodes' = G.nodes
  /\ edges' = G.edges
  /\ lut' = G.lut
  /\ writeQueue' = G.writeQueue
  /\ diag' = G.diag

\* One State, no scope open yet.
EmptyState ==
  /\ obj = <<NodeRec("State", "state_0", FALSE)>>
  /\ nodes = << <<>> >>
  /\ edges = << <<>> >>
  /\ lut = <<EmptyLut>>
  /\ writeQueue = << <<>> >>
  /\ stack = <<1>>
  /\ nops = 0
  /\ last = [op |-> "init", scope |-> 0, value |-> 0, ret |-> NoConn,
             from |-> NoConn, to |-> NoConn, pre |-> 0]
  /\ prev = [op |-> "init", scope |-> 0, value |-> 0, ret |-> NoConn,
             from |-> NoConn, to |-> NoConn, pre |-> 0]

\* No module is being translated and no Array is being emitted.
NoArray == [shape |-> <<>>, integers |-> <<>>, symbols |-> <<>>]
NoPosition == [unit |-> 0, phase |-> "idle", op |-> 0]

NothingToEmit ==
  /\ prog = <<>>
  /\ pc = NoPosition
  /\ result = "running"
  /\ jemit = <<>>
  /\ array = NoArray

\* No edge, tasklet or operation is being handled and no SDFG exists.
NoEdge == MultiEdge(NoConn, NoConn)
NoTasklet == [ops |-> <<>>, arguments |-> 0, results |-> 0]
NoOperation == [kind |-> "none", operands |-> 0, arguments |-> 0, states |-> 0,
                foreign |-> FALSE]

NoEntities ==
  /\ edge = NoEdge
  /\ tasklet = NoTasklet
  /\ dialectOp = NoOperation
  /\ sdfgs = <<>>

Init ==
  /\ EmptyState
  /\ diag = {}
  /\ NothingToEmit
  /\ NoEntities

\* An entry/exit pair is created, added to the current scope and linked;
\* the body is then translated inside the new scope.
OpenScope(entryType, exitType, G) ==
  LET entry == fresh(G)
      G1 == alloc(G, NodeRec(entryType, "entry", FALSE))
      G2 == ScopeNode_addNode(G1, cur, entry)
      exit == fresh(G2)
      G3 == alloc(G2, NodeRec(exitType, "exit", FALSE))
      G4 == ScopeNode_addNode(G3, cur, exit)
  IN [G4 EXCEPT !.obj[entry].link = exit, !.obj[exit].link = entry]

OpenMap ==
  /\ nops < MaxOps
  /\ Depth < MaxDepth
  /\ SetGraph(OpenScope("MapEntry", "MapExit", Graph))
  /\ stack' = Append(stack, fresh(Graph))
  /\ nops' = nops + 1
  /\ last' = Call("openMap", fresh(Graph), 0, NoConn, NoConn, NoConn)
  /\ prev' = Forget(last)
  /\ UNCHANGED emitVars
  /\ UNCHANGED entityVars

OpenConsume ==
  /\ nops < MaxOps
  /\ Depth < MaxDepth
  /\ SetGraph(OpenScope("ConsumeEntry", "ConsumeExit", Graph))
  /\ stack' = Append(stack, fresh(Graph))
  /\ nops' = nops + 1
  /\ last' = Call("openConsume", fresh(Graph), 0, NoConn, NoConn, NoConn)
  /\ prev' = Forget(last)
  /\ UNCHANGED emitVars
  /\ UNCHANGED entityVars

\* scope.lookup(value)
Lookup(v) ==
  /\ nops < MaxOps
  /\ LET R == ScopeNode_lookup(Graph, cur, v)
     IN /\ SetGraph(R.g)
        /\ last' = Call("lookup", cur, v, R.r, NoConn, NoConn)
  /\ nops' = nops + 1
  /\ prev' = Forget(last)
  /\ UNCHANGED emitVars
  /\ UNCHANGED stack
  /\ UNCHANGED entityVars

\* An instruction reading value v: a tasklet is added to the scope and its
\* input connector is wired from scope.lookup(v).
ReadGraph(G, v) ==
  LET t == fresh(G)
      G1 == alloc(G, NodeRec("Tasklet", "task", FALSE))
      G2 == ScopeNode_addNode(G1, cur, t)
      R == ScopeNode_lookup(G2, cur, v)
      in == NamedConnector(t, "_in")
      G3 == addInConnector(R.g, t, in)
  IN [g |-> ScopeNode_addEdge(G3, cur, MultiEdge(R.r, in)), r |-> R.r]

Read(v) ==
  /\ nops < MaxOps
  /\ LET R == ReadGraph(Graph, v)
     IN /\ SetGraph(R.g)
        /\ last' = Call("read", cur, v, R.r, NoConn, NoConn)
  /\ nops' = nops + 1
  /\ prev' = Forget(last)
  /\ UNCHANGED emitVars
  /\ UNCHANGED stack
  /\ UNCHANGED entityVars

\* An instruction writing value v: a tasklet producing the data is added to
\* the scope, an Access node bound to the container is created, and the
\* write is handed to scope.routeWrite(taskletOut, accessIn, v).
WriteFrom(G) == NamedConnector(fresh(G), "_out")
WriteTo(G, v) ==
  setRanges(setData(NullConnector(fresh(G) + 1), ArrayName(v)), <<"0">>)

WriteGraph(G, v) ==
  LET t == fresh(G)
      G1 == alloc(G, NodeRec("Tasklet", "task", FALSE))
      G2 == ScopeNode_addNode(G1, cur, t)
      G3 == addOutConnector(G2, t, WriteFrom(G))
      a == fresh(G3)
      G4 == alloc(G3, NodeRec("Access", ArrayName(v), ValueInit(v)))
      G5 == addInConnector(G4, a, WriteTo(G, v))
  IN ScopeNode_routeWrite(G5, cur, WriteFrom(G), WriteTo(G, v), v)

Write(v) ==
  /\ nops < MaxOps
  /\ SetGraph(WriteGraph(Graph, v))
  /\ last' = Call("routeWrite", cur, v, NoConn, WriteFrom(Graph), WriteTo(Graph, v))
  /\ nops' = nops + 1
  /\ prev' = Forget(last)
  /\ UNCHANGED emitVars
  /\ UNCHANGED stack
  /\ UNCHANGED entityVars

\* An instruction that must be ordered after the producer of value v but
\* reads no data from it: a tasklet is added to the scope and the ordering
\* edge is requested with scope.addDependency(v, taskletNullIn).
DependencyTo(G) == NullConnector(fresh(G))

DependencyGraph(G, v) ==
  LET t == fresh(G)
      G1 == alloc(G, NodeRec("Tasklet", "task", FALSE))
      G2 == ScopeNode_addNode(G1, cur, t)
      G3 == addInConnector(G2, t, DependencyTo(G))
  IN ScopeNode_addDependency(G3, cur, v, DependencyTo(G))

AddDependency(v) ==
  /\ nops < MaxOps
  /\ SetGraph(DependencyGraph(Graph, v))
  /\ last' = Call("addDependency", cur, v, NoConn, NoConn, DependencyTo(Graph))
  /\ nops' = nops + 1
  /\ prev' = Forget(last)
  /\ UNCHANGED emitVars
  /\ UNCHANGED stack
  /\ UNCHANGED entityVars

\* The body of the innermost scope has been traversed.  A map scope is
\* closed by connectDanglingNodes; ConsumeEntry has no closing operation.
CloseMap ==
  /\ Depth > 0
  /\ obj[cur].type = "MapEntry"
  /\ SetGraph(connectDanglingNodes(Graph, cur))
  /\ stack' = SubSeq(stack, 1, Len(stack) - 1)
  /\ last' = Call("closeMap", cur, 0, NoConn, NoConn, NoConn)
  /\ prev' = Forget(last)
  /\ UNCHANGED emitVars
  /\ UNCHANGED nops
  /\ UNCHANGED entityVars

CloseConsume ==
  /\ Depth > 0
  /\ obj[cur].type = "ConsumeEntry"
  /\ stack' = SubSeq(stack, 1, Len(stack) - 1)
  /\ last' = Call("closeConsume", cur, 0, NoConn, NoConn, NoConn)
  /\ prev' = Forget(last)
  /\ UNCHANGED emitVars
  /\ UNCHANGED <<obj, nodes, edges, lut, writeQueue, diag, nops>>
  /\ UNCHANGED entityVars

Next ==
  \/ OpenMap
  \/ OpenConsume
  \/ \E v \in Values : Lookup(v)
  \/ \E v \in Values : Read(v)
  \/ \E v \in Values : Write(v)
  \/ \E v \in Values : AddDependency(v)
  \/ CloseMap
  \/ CloseConsume

Spec == Init /\ [][Next]_vars

-----------------------------------------------------------------------------
\* The builder at the first instruction of the body of a consume that is
\* the first operation of a State: the entry/exit pair has been created,
\* added to the State and linked, and the consume is the current scope.

StateOnly ==
  [obj |-> <<NodeRec("State", "state_0", FALSE)>>, nodes |-> << <<>> >>,
   edges |-> << <<>> >>, lut |-> <<EmptyLut>>, writeQueue |-> << <<>> >>,
   diag |-> {}]

ConsumeOpened ==
  LET entry == fresh(StateOnly)
      G1 == alloc(StateOnly, NodeRec("ConsumeEntry", "entry", FALSE))
      G2 == ScopeNode_addNode(G1, 1, entry)
      exit == fresh(G2)
      G3 == alloc(G2, NodeRec("ConsumeExit", "exit", FALSE))
      G4 == ScopeNode_addNode(G3, 1, exit)
  IN [G4 EXCEPT !.obj[entry].link = exit, !.obj[exit].link = entry]

ConsumeInit ==
  /\ obj = ConsumeOpened.obj
  /\ nodes = ConsumeOpened.nodes
  /\ edges = ConsumeOpened.edges
  /\ lut = ConsumeOpened.lut
  /\ writeQueue = ConsumeOpened.writeQueue
  /\ diag = ConsumeOpened.diag
  /\ stack = <<1, fresh(StateOnly)>>
  /\ nops = 0
  /\ last = [op |-> "init", scope |-> 0, value |-> 0, ret |-> NoConn,
             from |-> NoConn, to |-> NoConn, pre |-> 0]
  /\ prev = [op |-> "init", scope |-> 0, value |-> 0, ret |-> NoConn,
             from |-> NoConn, to |-> NoConn, pre |-> 0]
  /\ NothingToEmit
  /\ NoEntities

SpecConsume == ConsumeInit /\ [][Next]_vars

-----------------------------------------------------------------------------
\* The builder handing the engine what it cannot resolve: values that
\* denote no data container, and connectors for a slot that is taken.

\* Value 3 is a block argument (getDefiningOp() == nullptr); value 4 is the
\* result of an operation other than AllocOp.
NoContainer == {3, 4}
DefiningOp(v) ==
  CASE v \in Values -> "AllocOp"
    [] v = 3 -> "none"
    [] OTHER -> "other"

\* lookup(v) from scope s goes up to the State and misses there as well.
RECURSIVE MissesInState(_, _, _)
MissesInState(G, s, v) ==
  /\ ~Mapped(G, s, v)
  /\ G.obj[s].type \in EntryTypes => MissesInState(G, G.obj[s].parent, v)

\* scope.lookup(v) for such a value.  StateImpl::lookup applies
\* cast<AllocOp> to the defining operation when there is one: on an
\* operation of another kind the cast either stops the program (assertions
\* enabled) or goes on reading it as an AllocOp, which finds neither a name
\* nor an init attribute.
LookupNoContainer(v) ==
  /\ nops < MaxOps
  /\ \/ LET R == ScopeNode_lookup(Graph, cur, v)
        IN /\ SetGraph(R.g)
           /\ last' = Call("lookup", cur, v, R.r, NoConn, NoConn)
           /\ result' = result
     \/ /\ DefiningOp(v) = "other"
        /\ MissesInState(Graph, cur, v)
        /\ UNCHANGED <<obj, nodes, edges, lut, writeQueue, diag>>
        /\ last' = Call("lookup", cur, v, NoConn, NoConn, NoConn)
        /\ result' = "aborted"
  /\ nops' = nops + 1
  /\ prev' = Forget(last)
  /\ UNCHANGED <<stack, prog, pc, jemit, array>>
  /\ UNCHANGED entityVars

\* The connectors a caller may hand to node n for a slot of list cs: a
\* connector already held, bound to any container name.
DataNames == {"", ArrayName(1), ArrayName(2)}
Redefinitions(cs) == {setData(cs[i], d) : i \in 1..Len(cs), d \in DataNames}

\* node.addInConnector(c)
AddInConnector ==
  /\ nops < MaxOps
  /\ \E n \in 1..Len(obj) : \E c \in Redefinitions(obj[n].inConnectors) :
       /\ SetGraph(addInConnector(Graph, n, c))
       /\ last' = Call("addInConnector", n, 0, NoConn, NoConn, c)
  /\ nops' = nops + 1
  /\ prev' = Forget(last)
  /\ UNCHANGED <<stack, emitVars>>
  /\ UNCHANGED entityVars

\* node.addOutConnector(c)
AddOutConnector ==
  /\ nops < MaxOps
  /\ \E n \in 1..Len(obj) : \E c \in Redefinitions(obj[n].outConnectors) :
       /\ SetGraph(addOutConnector(Graph, n, c))
       /\ last' = Call("addOutConnector", n, 0, NoConn, NoConn, c)
  /\ nops' = nops + 1
  /\ prev' = Forget(last)
  /\ UNCHANGED <<stack, emitVars>>
  /\ UNCHANGED entityVars

NextErr ==
  \/ result = "running" /\ OpenMap
  \/ result = "running" /\ OpenConsume
  \/ result = "running" /\ \E v \in Values : Lookup(v)
  \/ result = "running" /\ \E v \in NoContainer : LookupNoContainer(v)
  \/ result = "running" /\ AddInConnector
  \/ result = "running" /\ AddOutConnector
  \/ result = "running" /\ CloseMap
  \/ result = "running" /\ CloseConsume

SpecErr == Init /\ [][NextErr]_vars

-----------------------------------------------------------------------------
\* Emission of one Array: a container of any shape up to MaxRank whose
\* dimensions are compile-time integers or symbols.

MaxRank == 3

IntDims == {2, 3}
SymDims == {"N", "M"}
Dimensions ==
  {[isInt |-> TRUE, int |-> n, sym |-> ""] : n \in IntDims}
    \cup {[isInt |-> FALSE, int |-> 0, sym |-> y] : y \in SymDims}

RECURSIVE Shapes(_)
Shapes(n) ==
  IF n = 0 THEN {<<>>}
  ELSE Shapes(n - 1) \cup
       {Append(q, d) : q \in {r \in Shapes(n - 1) : Len(r) = n - 1}, d \in Dimensions}

\* ArrayType: getShape() tells integer from symbol per dimension,
\* getIntegers() and getSymbols() hold the two kinds in order.
RECURSIVE Pick(_, _)
Pick(dims, wantInt) ==
  IF dims = <<>> THEN <<>>
  ELSE LET d == dims[1]
           rest == Pick(SubSeq(dims, 2, Len(dims)), wantInt)
       IN IF d.isInt = wantInt
          THEN <<IF wantInt THEN d.int ELSE d.sym>> \o rest
          ELSE rest

ArrayType(dims) ==
  [shape |-> [k \in 1..Len(dims) |-> dims[k].isInt],
   integers |-> Pick(dims, TRUE),
   symbols |-> Pick(dims, FALSE)]

Token(unit, key, value) == [unit |-> unit, key |-> key, value |-> value]

ArrayInit ==
  /\ EmptyState
  /\ diag = {}
  /\ prog = <<>>
  /\ result = "running"
  /\ jemit = <<>>
  /\ pc = [unit |-> 0, phase |-> "array", op |-> 0]
  /\ array \in {ArrayType(dims) : dims \in Shapes(MaxRank)}
  /\ NoEntities

EmitArray ==
  /\ pc.phase = "array"
  /\ LET e == Array_emit(array)
     IN jemit' = <<Token(0, "shape", [k \in 1..Len(e.shape) |-> <<e.shape[k]>>]),
                   Token(0, "strides", e.strides)>>
  /\ pc' = [pc EXCEPT !.phase = "emitted"]
  /\ UNCHANGED <<builderVars, diag, prog, result, array>>
  /\ UNCHANGED entityVars

SpecArray == ArrayInit /\ [][EmitArray]_vars

-----------------------------------------------------------------------------
\* translateToSDFG: a module is translated unit by unit (SDFGNode), each
\* handler appending to the emission stream as it goes and returning
\* failure() at the first error.

\* Top-level units per module, and instructions per state body.
MaxUnits == 2
MaxBody == 1

\* Element types of the containers declared: i32 is supported, f16 is not.
ElementTypes == {"i32", "f16"}

\* The instructions of a state body: a tasklet with one result, a tasklet
\* with two results, a stream push.
Instructions ==
  {[kind |-> "sdfg.tasklet", results |-> 1],
   [kind |-> "sdfg.tasklet", results |-> 2],
   [kind |-> "sdfg.stream_push", results |-> 0]}

RECURSIVE SeqsUpTo(_, _)
SeqsUpTo(S, n) ==
  IF n = 0 THEN {<<>>}
  ELSE SeqsUpTo(S, n - 1) \cup
       {Append(q, x) : q \in {r \in SeqsUpTo(S, n - 1) : Len(r) = n - 1}, x \in S}

\* A unit: one sdfg.sdfg holding one container declaration and one state.
Units == {[element |-> t, body |-> b] : t \in ElementTypes, b \in SeqsUpTo(Instructions, MaxBody)}

translateTypeToSDFG(t) ==
  CASE t = "f64" -> "float64"
    [] t = "f32" -> "float32"
    [] t = "i64" -> "int64"
    [] t = "i32" -> "int32"
    [] t = "index" -> "int64"
    [] OTHER -> ""

Emit(tokens) == jemit' = jemit \o tokens
Text(x) == << <<x>> >>

TranslateInit ==
  /\ EmptyState
  /\ diag = {}
  /\ prog \in SeqsUpTo(Units, MaxUnits)
  /\ pc = [unit |-> 0, phase |-> "module", op |-> 0]
  /\ result = "running"
  /\ jemit = <<>>
  /\ array = NoArray
  /\ NoEntities

\* translateToSDFG(ModuleOp): the loop reaches the next SDFGNode.
\* translateToSDFG(SDFGNode) opens its object and printSDFGNode prints up to
\* the start of "_arrays".
BeginUnit ==
  /\ pc.phase = "module"
  /\ pc.unit < Len(prog)
  /\ Emit(<<Token(pc.unit + 1, "type", Text("SDFG")),
            Token(pc.unit + 1, "_arrays", <<>>)>>)
  /\ pc' = [unit |-> pc.unit + 1, phase |-> "arrays", op |-> 0]
  /\ UNCHANGED <<builderVars, diag, prog, result, array>>
  /\ UNCHANGED entityVars

\* translateToSDFG(AllocOp): the object is opened and its type printed
\* before the element type is looked at.
TranslateAlloc ==
  /\ pc.phase = "arrays"
  /\ LET dtype == translateTypeToSDFG(prog[pc.unit].element)
     IN IF dtype # ""
        THEN /\ Emit(<<Token(pc.unit, "type", Text("Array")),
                       Token(pc.unit, "dtype", Text(dtype))>>)
             /\ pc' = [pc EXCEPT !.phase = "state"]
             /\ UNCHANGED <<diag, result>>
        ELSE /\ Emit(<<Token(pc.unit, "type", Text("Array"))>>)
             /\ diag' = diag \cup {"Unsupported type: " \o prog[pc.unit].element}
             /\ result' = "failure"
             /\ pc' = [pc EXCEPT !.phase = "done"]
  /\ UNCHANGED <<builderVars, prog, array>>
  /\ UNCHANGED entityVars

\* printSDFGNode goes on to "symbols" and "nodes"; translateToSDFG(StateNode)
\* prints the state's header and opens its node list.
BeginState ==
  /\ pc.phase = "state"
  /\ Emit(<<Token(pc.unit, "symbols", <<>>),
            Token(pc.unit, "type", Text("SDFGState"))>>)
  /\ pc' = [pc EXCEPT !.phase = "nodes", !.op = 1]
  /\ UNCHANGED <<builderVars, diag, prog, result, array>>
  /\ UNCHANGED entityVars

\* One turn of the loop over the state's body in translateToSDFG(StateNode):
\* a TaskletNode is translated (translateToSDFG(TaskletNode) prints the
\* tasklet up to its out connectors and then fails on more than one
\* result); SDFGNode, MapNode and ConsumeNode have their own branches; an
\* operation of any other kind matches no dyn_cast and the loop moves on.
TranslateInstruction ==
  /\ pc.phase = "nodes"
  /\ pc.op <= Len(prog[pc.unit].body)
  /\ LET oper == prog[pc.unit].body[pc.op]
     IN \/ /\ oper.kind = "sdfg.tasklet"
           /\ oper.results <= 1
           /\ Emit(<<Token(pc.unit, "type", Text("Tasklet")),
                     Token(pc.unit, "out_connectors", Text("__out"))>>)
           /\ pc' = [pc EXCEPT !.op = @ + 1]
           /\ UNCHANGED <<diag, result>>
        \/ /\ oper.kind = "sdfg.tasklet"
           /\ oper.results > 1
           /\ Emit(<<Token(pc.unit, "type", Text("Tasklet"))>>)
           /\ diag' = diag \cup {"Multiple return values not implemented yet"}
           /\ result' = "failure"
           /\ pc' = [pc EXCEPT !.phase = "done"]
        \/ /\ oper.kind \notin {"sdfg.tasklet", "sdfg.sdfg", "sdfg.map", "sdfg.consume"}
           /\ pc' = [pc EXCEPT !.op = @ + 1]
           /\ UNCHANGED <<jemit, diag, result>>
  /\ UNCHANGED <<builderVars, prog, array>>
  /\ UNCHANGED entityVars

\* The node list is closed; the loop over the body for edges finds no
\* StoreOp, CopyOp or CallOp; the state and the unit are closed and control
\* is back in the loop of translateToSDFG(ModuleOp).
EndUnit ==
  /\ pc.phase = "nodes"
  /\ pc.op > Len(prog[pc.unit].body)
  /\ Emit(<<Token(pc.unit, "edges", <<>>), Token(pc.unit, "start_state", Text("0"))>>)
  /\ pc' = [pc EXCEPT !.phase = "module", !.op = 0]
  /\ UNCHANGED <<builderVars, diag, prog, result, array>>
  /\ UNCHANGED entityVars

\* No operation of the module is left: return success().
EndModule ==
  /\ pc.phase = "module"
  /\ pc.unit = Len(prog)
  /\ result' = "success"
  /\ pc' = [pc EXCEPT !.phase = "done"]
  /\ UNCHANGED <<builderVars, diag, prog, jemit, array>>
  /\ UNCHANGED entityVars

NextTranslate ==
  \/ BeginUnit
  \/ TranslateAlloc
  \/ BeginState
  \/ TranslateInstruction
  \/ EndUnit
  \/ EndModule

SpecTranslate == TranslateInit /\ [][NextTranslate]_vars

-----------------------------------------------------------------------------
\* MultiEdge::emit: one edge of a State's edge list is serialized.

\* jemit.printKVPair(key, value, stringify); a Range object printed by
\* printRangeVector carries its ranges.
KV(key, text, stringify) ==
  [key |-> key, text |-> text, quoted |-> stringify, ranges |-> <<>>]

printRangeVector(ranges, name) ==
  IF ranges = <<>> THEN <<KV(name, "null", FALSE)>>
  ELSE <<[key |-> name, text |-> "Range", quoted |-> TRUE, ranges |-> ranges]>>

MultiEdge_emit(G, e) ==
  <<KV("type", "MultiConnectorEdge", TRUE),
    KV("src", to_string(G.obj[e.source.parent].id), TRUE),
    KV("dst", to_string(G.obj[e.destination.parent].id), TRUE),
    KV("src_connector", IF e.depEdge THEN "null" ELSE e.source.name,
       ~e.source.isNull /\ ~e.depEdge),
    KV("dst_connector", IF e.depEdge THEN "null" ELSE e.destination.name,
       ~e.destination.isNull /\ ~e.depEdge),
    KV("type", "Memlet", TRUE)>>
  \o (IF e.source.data # "" /\ ~e.depEdge THEN <<KV("data", e.source.data, TRUE)>>
      ELSE IF e.destination.data # "" /\ ~e.depEdge
      THEN <<KV("data", e.destination.data, TRUE)>>
      ELSE <<>>)
  \o printRangeVector(e.source.ranges, "subset")
  \o printRangeVector(e.source.ranges, "src_subset")
  \o printRangeVector(e.destination.ranges, "other_subset")
  \o printRangeVector(e.destination.ranges, "dst_subset")

\* A State holding two tasklets, the endpoints of the edge.
TwoTasklets ==
  LET G0 == [obj |-> <<NodeRec("State", "state_0", FALSE)>>, nodes |-> << <<>> >>,
             edges |-> << <<>> >>, lut |-> <<EmptyLut>>, writeQueue |-> << <<>> >>,
             diag |-> {}]
      G1 == alloc(G0, NodeRec("Tasklet", "task", FALSE))
      G2 == ScopeNode_addNode(G1, 1, 2)
      G3 == alloc(G2, NodeRec("Tasklet", "task", FALSE))
  IN ScopeNode_addNode(G3, 1, 3)

\* The connectors an edge may join: null or named, with or without a data
\* name, with or without ranges.
RangeLists == {<<>>, <<"0">>}
ConnectorsOf(n, name) ==
  {setRanges(setData(c, d), r) :
     c \in {NullConnector(n), NamedConnector(n, name)},
     d \in {"", ArrayName(1)}, r \in RangeLists}

MultiEdges ==
  {MultiEdge(a, b) : a \in ConnectorsOf(2, "_out"), b \in ConnectorsOf(3, "_in")}
    \cup {makeDependence(MultiEdge(a, b)) :
            a \in ConnectorsOf(2, "_out"), b \in ConnectorsOf(3, "_in")}

EdgeInit ==
  /\ obj = TwoTasklets.obj
  /\ nodes = TwoTasklets.nodes
  /\ edges = TwoTasklets.edges
  /\ lut = TwoTasklets.lut
  /\ writeQueue = TwoTasklets.writeQueue
  /\ diag = {}
  /\ stack = <<1>>
  /\ nops = 0
  /\ last = [op |-> "init", scope |-> 0, value |-> 0, ret |-> NoConn,
             from |-> NoConn, to |-> NoConn, pre |-> 0]
  /\ prev = [op |-> "init", scope |-> 0, value |-> 0, ret |-> NoConn,
             from |-> NoConn, to |-> NoConn, pre |-> 0]
  /\ prog = <<>>
  /\ pc = [unit |-> 0, phase |-> "edge", op |-> 0]
  /\ result = "running"
  /\ jemit = <<>>
  /\ array = NoArray
  /\ edge \in MultiEdges
  /\ tasklet = NoTasklet
  /\ dialectOp = NoOperation
  /\ sdfgs = <<>>

EmitEdge ==
  /\ pc.phase = "edge"
  /\ jemit' = MultiEdge_emit(Graph, edge)
  /\ pc' = [pc EXCEPT !.phase = "emitted"]
  /\ UNCHANGED <<builderVars, diag, prog, result, array, entityVars>>

SpecEdge == EdgeInit /\ [][EmitEdge]_vars

-----------------------------------------------------------------------------
\* SDFG and NestedSDFG: states, arrays, arguments and symbols are added to
\* an SDFG; SDFG::emit serializes it with everything nested in it.
\* X is the pair of the SDFG objects and the diagnostics reported.

\* Calls made on the SDFG objects in one run.
MaxCalls == 3

SDFGRec(name, id) ==
  [name |-> name, id |-> id, states |-> <<>>, lut |-> [k \in {} |-> 0],
   arrays |-> <<>>, args |-> <<>>, symbols |-> <<>>, startState |-> 0]

\* A State as constructed, and a NestedSDFG node holding SDFG g.
StateRec(name) == [name |-> name, id |-> -1, parent |-> 0, nodes |-> <<>>]
NestedRec(g) == [type |-> "NestedSDFG", sdfg |-> g]

\* lut maps a name to the State registered under it (its place in states).
SDFGImpl_addState(X, g, state) ==
  LET placed == [state EXCEPT !.parent = g, !.id = Len(X.sdfgs[g].states)]
      X1 == [X EXCEPT !.sdfgs[g].states = Append(@, placed)]
      l == X.sdfgs[g].lut
  IN IF state.name \in DOMAIN l
     THEN [X1 EXCEPT !.diag = @ \cup {"Duplicate ID in SDFGImpl::addState"}]
     ELSE [X1 EXCEPT !.sdfgs[g].lut =
             [k \in DOMAIN l \cup {state.name} |->
                IF k = state.name THEN Len(X1.sdfgs[g].states) ELSE l[k]]]

\* The state is named by its place in states; 0 is a state never added.
SDFGImpl_setStartState(X, g, k) ==
  IF k \notin 1..Len(X.sdfgs[g].states)
  THEN [X EXCEPT !.diag = @ \cup
          {"Non-existent state assigned as start in SDFGImpl::setStartState"}]
  ELSE [X EXCEPT !.sdfgs[g].startState = k]

SDFGImpl_addArray(X, g, a) == [X EXCEPT !.sdfgs[g].arrays = Append(@, a)]

SDFGImpl_addArg(X, g, a) ==
  SDFGImpl_addArray([X EXCEPT !.sdfgs[g].args = Append(@, a)], g, a)

SDFGImpl_addSymbol(X, g, y) == [X EXCEPT !.sdfgs[g].symbols = Append(@, y)]

\* One printKVPair(key, list[k]) per element of a list of names.
EachKV(key, list) == [k \in 1..Len(list) |-> KV(key, list[k], TRUE)]
NamesOf(list) == [k \in 1..Len(list) |-> list[k].name]

RECURSIVE SDFGImpl_emitBody(_, _)

\* The loop over the parent SDFG's symbols in NestedSDFGImpl::emit, from
\* the i-th on: each is printed and added to the nested SDFG.
RECURSIVE MapSymbols(_, _, _, _)
MapSymbols(X, syms, g, i) ==
  IF i > Len(syms) THEN X
  ELSE MapSymbols(SDFGImpl_addSymbol(X, g, syms[i]), syms, g, i + 1)

\* parent is the SDFG of the State holding the node.
NestedSDFGImpl_emit(X, parent, node) ==
  LET syms == X.sdfgs[parent].symbols
      X1 == MapSymbols(X, syms, node.sdfg, 1)
      R == SDFGImpl_emitBody(X1, node.sdfg)
  IN [x |-> R.x,
      doc |-> <<KV("type", "NestedSDFG", TRUE)>> \o EachKV("symbol_mapping", syms)
              \o R.doc]

\* ScopeNodeImpl::emit of state i of SDFG g, from its j-th node on.
RECURSIVE EmitNodes(_, _, _, _, _)
EmitNodes(X, g, i, j, doc) ==
  IF j > Len(X.sdfgs[g].states[i].nodes) THEN [x |-> X, doc |-> doc]
  ELSE LET R == NestedSDFGImpl_emit(X, g, X.sdfgs[g].states[i].nodes[j])
       IN EmitNodes(R.x, g, i, j + 1, doc \o R.doc)

\* The loop over states in SDFGImpl::emitBody, from the i-th on.
RECURSIVE EmitStates(_, _, _, _)
EmitStates(X, g, i, doc) ==
  IF i > Len(X.sdfgs[g].states) THEN [x |-> X, doc |-> doc]
  ELSE LET st == X.sdfgs[g].states[i]
           R == EmitNodes(X, g, i, 1,
                  <<KV("type", "SDFGState", TRUE), KV("label", st.name, TRUE),
                    KV("id", to_string(st.id), FALSE)>>)
       IN EmitStates(R.x, g, i + 1, doc \o R.doc)

SDFGImpl_emitBody(X, g) ==
  LET S == X.sdfgs[g]
  IN EmitStates(X, g, 1,
       <<KV("type", "SDFG", TRUE),
         KV("sdfg_list_id", to_string(S.id), FALSE),
         KV("start_state", to_string(S.states[S.startState].id), FALSE),
         KV("name", S.name, TRUE)>>
       \o EachKV("arg_names", NamesOf(S.args))
       \o EachKV("_arrays", NamesOf(S.arrays))
       \o EachKV("symbols", S.symbols))

SDFGImpl_emit(X, g) == SDFGImpl_emitBody(X, g)

\* The SDFG objects of a program with one nested SDFG: sdfg_0 holds a
\* start state whose only node is a NestedSDFG holding sdfg_1, which has a
\* start state of its own.
Nested ==
  LET X0 == [sdfgs |-> <<SDFGRec("sdfg_0", 0), SDFGRec("sdfg_1", 1)>>, diag |-> {}]
      X1 == SDFGImpl_addState(X0, 1, StateRec("state_0"))
      X2 == SDFGImpl_setStartState(X1, 1, 1)
      X3 == SDFGImpl_addState(X2, 2, StateRec("state_0"))
      X4 == SDFGImpl_setStartState(X3, 2, 1)
  IN [X4 EXCEPT !.sdfgs[1].states[1].nodes = Append(@, NestedRec(2))]

StateNames == {"state_0", "state_1"}
ArrayNames == {"A", "B"}
SymbolNames == {"N"}
ArrayRec(name) == [name |-> name, transient |-> FALSE]

XNow == [sdfgs |-> sdfgs, diag |-> diag]
SetX(X) == sdfgs' = X.sdfgs /\ diag' = X.diag
SdfgCall(op, g, name, doc) ==
  [op |-> op, scope |-> g, value |-> name, doc |-> doc, pre |-> sdfgs]

SdfgInit ==
  /\ EmptyState
  /\ NothingToEmit
  /\ edge = NoEdge
  /\ tasklet = NoTasklet
  /\ dialectOp = NoOperation
  /\ sdfgs = Nested.sdfgs
  /\ diag = Nested.diag

SdfgFrame ==
  /\ nops' = nops + 1
  /\ prev' = Forget(last)
  /\ UNCHANGED <<obj, nodes, edges, lut, writeQueue, stack>>
  /\ UNCHANGED <<prog, pc, result, array, edge, tasklet, dialectOp>>

AddState(g, name) ==
  /\ nops < MaxCalls
  /\ SetX(SDFGImpl_addState(XNow, g, StateRec(name)))
  /\ last' = SdfgCall("addState", g, name, <<>>)
  /\ jemit' = jemit
  /\ SdfgFrame

AddArray(g, name) ==
  /\ nops < MaxCalls
  /\ SetX(SDFGImpl_addArray(XNow, g, ArrayRec(name)))
  /\ last' = SdfgCall("addArray", g, name, <<>>)
  /\ jemit' = jemit
  /\ SdfgFrame

AddArg(g, name) ==
  /\ nops < MaxCalls
  /\ SetX(SDFGImpl_addArg(XNow, g, ArrayRec(name)))
  /\ last' = SdfgCall("addArg", g, name, <<>>)
  /\ jemit' = jemit
  /\ SdfgFrame

AddSymbol(g, name) ==
  /\ nops < MaxCalls
  /\ SetX(SDFGImpl_addSymbol(XNow, g, name))
  /\ last' = SdfgCall("addSymbol", g, name, <<>>)
  /\ jemit' = jemit
  /\ SdfgFrame

\* sdfg.emit(jemit) on the top-level SDFG.
EmitSDFG ==
  /\ nops < MaxCalls
  /\ LET R == SDFGImpl_emit(XNow, 1)
     IN /\ SetX(R.x)
        /\ jemit' = jemit \o R.doc
        /\ last' = SdfgCall("emit", 1, "", R.doc)
  /\ SdfgFrame

NextSdfg ==
  \/ \E g \in 1..Len(sdfgs) : \E name \in StateNames : AddState(g, name)
  \/ \E g \in 1..Len(sdfgs) : \E name \in ArrayNames : AddArray(g, name)
  \/ \E g \in 1..Len(sdfgs) : \E name \in ArrayNames : AddArg(g, name)
  \/ \E g \in 1..Len(sdfgs) : \E name \in SymbolNames : AddSymbol(g, name)
  \/ EmitSDFG

SpecSdfg == SdfgInit /\ [][NextSdfg]_vars

-----------------------------------------------------------------------------
\* translateToSDFG(TaskletNode): the tasklet's code is lifted to Python when
\* liftToPython knows its first operation, and embedded as MLIR otherwise.

\* Operations of a tasklet body before its terminator.
MaxTaskletOps == 2

getInputName(i) == "_arg" \o to_string(i)

\* indices: the input names 0 .. n-2, separated by ", ".
RECURSIVE Indices(_, _)
Indices(i, n) ==
  IF i >= n - 1 THEN ""
  ELSE (IF i > 0 THEN ", " ELSE "") \o getInputName(i) \o Indices(i + 1, n)

PythonCode(text) == <<KV("string_data", text, TRUE), KV("language", "Python", TRUE)>>

\* A lifter that prints its guess before it counts the operations.
liftToPython_printsFirst(t) ==
  [ok |-> FALSE, doc |-> PythonCode("__out = " \o getInputName(0)),
   remarks |-> {"No lifting to python possible"}]

\* t.ops is the body, terminator included; firstOp is t.ops[1].
liftToPython(t) ==
  LET numOps == Len(t.ops)
      firstOp == t.ops[1]
      nameArg0 == getInputName(0)
      nameLast == getInputName(t.arguments - 1)
      ok(text) == [ok |-> TRUE, doc |-> PythonCode(text), remarks |-> {}]
      no == [ok |-> FALSE, doc |-> <<>>, remarks |-> {"No lifting to python possible"}]
  IN IF numOps > 2 THEN no
     ELSE CASE firstOp = "arith.addi" -> ok("__out = " \o nameArg0 \o " + " \o nameLast)
            [] firstOp = "arith.muli" -> ok("__out = " \o nameArg0 \o " * " \o nameLast)
            [] firstOp = "arith.constant" -> ok("__out = " \o "5")
            [] firstOp = "arith.index_cast" -> ok("__out = " \o nameArg0)
            [] firstOp = "sdfg.store" ->
                 ok("__out[" \o Indices(0, t.arguments) \o "]" \o " = " \o nameLast)
            [] firstOp = "sdfg.load" ->
                 ok("__out = " \o nameLast \o "[" \o Indices(0, t.arguments) \o "]")
            [] firstOp = "sdfg.sym" -> ok("__out = " \o "N")
            [] firstOp = "sdfg.return" -> ok("__out = " \o nameArg0)
            [] OTHER -> no

\* A text is kept as the list of its pieces; a backslash and a quote are
\* pieces of their own.
Backslash == "\\"
Quote == "\""
NewLine == <<Backslash, "n">>

RECURSIVE Join(_)
Join(pieces) ==
  IF pieces = <<>> THEN "" ELSE pieces[1] \o Join(SubSeq(pieces, 2, Len(pieces)))

\* escapedCode: a backslash is put before every backslash and quote.
RECURSIVE Escape(_)
Escape(pieces) ==
  IF pieces = <<>> THEN <<>>
  ELSE (IF pieces[1] \in {Backslash, Quote} THEN <<Backslash, pieces[1]>>
        ELSE <<pieces[1]>>) \o Escape(SubSeq(pieces, 2, Len(pieces)))

\* The arguments "name: type" of mlir_entry, from the i-th on.
RECURSIVE EntryArguments(_, _)
EntryArguments(i, n) ==
  IF i >= n THEN <<>>
  ELSE (IF i > 0 THEN <<", ">> ELSE <<>>) \o <<getInputName(i), ": ", "i32">>
       \o EntryArguments(i + 1, n)

ResultTypes(n) == [k \in 1..n |-> "i32"]

\* The printed operations of the body, from the i-th on; "sdfg.return" is
\* printed as "return".
RECURSIVE CodeLines(_, _)
CodeLines(ops, i) ==
  IF i > Len(ops) THEN <<>>
  ELSE <<IF ops[i] = "sdfg.return" THEN "return" ELSE ops[i]>> \o NewLine
       \o CodeLines(ops, i + 1)

MlirCode(t) ==
  <<"module {">> \o NewLine \o <<" func @mlir_entry(">>
  \o EntryArguments(0, t.arguments) \o <<") -> ">> \o ResultTypes(t.results)
  \o <<" {">> \o NewLine \o CodeLines(t.ops, 1) \o <<"}">> \o NewLine \o <<"}">>

translateTasklet(t) ==
  LET lifted == liftToPython(t)
      code == IF ~lifted.ok
              THEN lifted.doc \o <<KV("string_data", Join(Escape(MlirCode(t))), TRUE),
                                   KV("language", "MLIR", TRUE)>>
              ELSE lifted.doc
      head == <<KV("type", "Tasklet", TRUE), KV("label", "task", TRUE)>> \o code
              \o [k \in 1..t.arguments |-> KV(getInputName(k - 1), "null", FALSE)]
  IN IF t.results = 1
     THEN [doc |-> head \o <<KV("__out", "null", FALSE), KV("id", "0", FALSE)>>,
           result |-> "success", errors |-> {}]
     ELSE IF t.results > 1
     THEN [doc |-> head, result |-> "failure",
           errors |-> {"Multiple return values not implemented yet"}]
     ELSE [doc |-> head \o <<KV("id", "0", FALSE)>>, result |-> "success",
           errors |-> {}]

\* The operations a body is made of: those the lifter knows, and one it
\* does not.
BodyOps == {"arith.addi", "arith.muli", "arith.constant", "arith.index_cast",
            "sdfg.store", "sdfg.load", "sdfg.sym", "arith.subi"}
ReadsArgument == {"arith.addi", "arith.muli", "arith.index_cast", "sdfg.store",
                  "sdfg.load", "arith.subi", "sdfg.return"}

\* Tasklets with up to two arguments and two results whose first
\* operation, when it reads an operand, has an argument to read.
Tasklets ==
  {t \in [ops : {Append(b, "sdfg.return") : b \in SeqsUpTo(BodyOps, MaxTaskletOps)},
          arguments : 0..2, results : 0..2] :
     t.ops[1] \in ReadsArgument => t.arguments >= 1}

TaskletInit ==
  /\ EmptyState
  /\ diag = {}
  /\ prog = <<>>
  /\ pc = [unit |-> 0, phase |-> "tasklet", op |-> 0]
  /\ result = "running"
  /\ jemit = <<>>
  /\ array = NoArray
  /\ edge = NoEdge
  /\ tasklet \in Tasklets
  /\ dialectOp = NoOperation
  /\ sdfgs = <<>>

TranslateTasklet ==
  /\ pc.phase = "tasklet"
  /\ LET R == translateTasklet(tasklet)
     IN /\ jemit' = jemit \o R.doc
        /\ result' = R.result
        /\ diag' = diag \cup R.errors
  /\ pc' = [pc EXCEPT !.phase = "translated"]
  /\ UNCHANGED <<builderVars, prog, array, entityVars>>

SpecTasklet == TaskletInit /\ [][TranslateTasklet]_vars

-----------------------------------------------------------------------------
\* The dialect verifier: TaskletNode::verify and NestedSDFGNode::verify.

\* Operands of an operation and arguments of its body.
MaxOperands == 3

\* emitOpError reports the message; the value it returns is dropped unless
\* the caller returns it.
TaskletNode_verify(op) ==
  [result |-> "success",
   errors |-> IF op.operands # op.arguments
              THEN {"must have matching amount of operands and arguments"}
              ELSE {}]

NestedSDFGNode_verify(op) ==
  IF op.foreign
  THEN [result |-> "failure", errors |-> {"does not support other dialects"}]
  ELSE IF op.states = 0
  THEN [result |-> "failure", errors |-> {"must contain at least one state"}]
  ELSE [result |-> "success",
        errors |-> IF op.operands # op.arguments
                   THEN {"must have matching amount of operands and arguments"}
                   ELSE {}]

verify(op) ==
  IF op.kind = "sdfg.tasklet" THEN TaskletNode_verify(op)
  ELSE NestedSDFGNode_verify(op)

\* A tasklet, or a nested SDFG whose body holds states or not and
\* operations of another dialect or not.
Operations ==
  [kind : {"sdfg.tasklet"}, operands : 0..MaxOperands, arguments : 0..MaxOperands,
   states : {0}, foreign : {FALSE}]
    \cup [kind : {"sdfg.nested_sdfg"}, operands : 0..MaxOperands,
          arguments : 0..MaxOperands, states : 0..1, foreign : BOOLEAN]

VerifyInit ==
  /\ EmptyState
  /\ diag = {}
  /\ prog = <<>>
  /\ pc = [unit |-> 0, phase |-> "verify", op |-> 0]
  /\ result = "running"
  /\ jemit = <<>>
  /\ array = NoArray
  /\ edge = NoEdge
  /\ tasklet = NoTasklet
  /\ dialectOp \in Operations
  /\ sdfgs = <<>>

Verify ==
  /\ pc.phase = "verify"
  /\ result' = verify(dialectOp).result
  /\ diag' = diag \cup verify(dialectOp).errors
  /\ pc' = [pc EXCEPT !.phase = "verified"]
  /\ UNCHANGED <<builderVars, prog, jemit, array, entityVars>>

SpecVerify == VerifyInit /\ [][Verify]_vars

-----------------------------------------------------------------------------
\* Vocabulary of the properties

Ids == 1..Len(obj)
MapEntries == {n \in Ids : obj[n].type = "MapEntry"}
ConsumeEntries == {n \in Ids : obj[n].type = "ConsumeEntry"}
Open(n) == \E i \in 1..Len(stack) : stack[i] = n
Closed(n) == obj[n].type \in EntryTypes /\ ~Open(n)
Boundary(n) == obj[n].type \in EntryTypes \cup ExitTypes

Range(f) == {f[i] : i \in DOMAIN f}
\* The elements a list gained since an earlier version of it.
NewIn(now, before) == {k \in 1..Len(now) : k > Len(before)}

InName(v) == "IN_" \o valueToString(v)
OutName(v) == "OUT_" \o valueToString(v)

\* A pending write w = <<from, to, mapValue>> of map M was read inside M:
\* an edge of M leaves the Access node holding it for a node other than M's exit.
ConsumedLocally(M, w) ==
  \E k \in 1..Len(edges[M]) :
    /\ edges[M][k].source.parent = w[1].parent
    /\ edges[M][k].destination.parent # obj[M].link

-----------------------------------------------------------------------------
\* C1: for every scope s and value v, lookup(v) called twice in a row on s
\* returns the identical connector both times and the second call adds no
\* node, connector or edge anywhere in the graph.
C1_IdempotentLookup ==
  (last.op = "lookup" /\ prev.op = "lookup"
     /\ last.scope = prev.scope /\ last.value = prev.value)
  => /\ last.ret = prev.ret
     /\ obj = last.pre.obj
     /\ nodes = last.pre.nodes
     /\ edges = last.pre.edges

-----------------------------------------------------------------------------
\* The edges of map M's own list that touch node a.
EdgesInto(es, a) == {k \in 1..Len(es) : es[k].destination.parent = a}
EdgesFrom(es, a) == {k \in 1..Len(es) : es[k].source.parent = a}

\* The scope that receives what map M routes out takes the write bound for
\* the target Access node T exactly once: a State by one edge into T, a map
\* by one pending write for T, a consume scope by handing it to its parent.
RECURSIVE AbsorbedOnce(_, _)
AbsorbedOnce(P, T) ==
  CASE obj[P].type = "MapEntry" ->
         Cardinality({i \in 1..Len(writeQueue[P]) : writeQueue[P][i][2].parent = T}) = 1
    [] obj[P].type = "ConsumeEntry" -> AbsorbedOnce(obj[P].parent, T)
    [] OTHER -> Cardinality(EdgesInto(edges[P], T)) = 1

-----------------------------------------------------------------------------
\* C3: after connectDanglingNodes on a map scope, every node contained in
\* the scope other than entry/exit boundary nodes is the destination of at
\* least one edge and the source of at least one edge of that scope.
C3_ScopeClosure ==
  \A M \in MapEntries : \A i \in 1..Len(nodes[M]) :
    (Closed(M) /\ ~Boundary(nodes[M][i]))
    => /\ HasDestination(edges[M], nodes[M][i])
       /\ HasSource(edges[M], nodes[M][i])

\* A closed map holds a tasklet that was wired to the exit and an Access or
\* tasklet that was wired from the entry by the closing step.
C3_Witness ==
  \E M \in MapEntries :
    /\ Closed(M)
    /\ \E k \in 1..Len(edges[M]) :
         /\ edges[M][k].destination = NullConnector(obj[M].link)
         /\ obj[edges[M][k].source.parent].type = "Tasklet"
    /\ \E k \in 1..Len(edges[M]) :
         /\ edges[M][k].source = NullConnector(M)
         /\ obj[edges[M][k].destination.parent].type = "Tasklet"

-----------------------------------------------------------------------------
\* C4: at every point of graph construction no node holds two input
\* connectors with the same name nor two output connectors with the same name.
UniqueNames(cs) ==
  \A i, j \in 1..Len(cs) : cs[i].name = cs[j].name => i = j

C4_ConnectorUniqueness ==
  \A n \in Ids : UniqueNames(obj[n].inConnectors) /\ UniqueNames(obj[n].outConnectors)

\* Two writes of one value were routed out of a map: the exit's IN_<v>
\* connector was inserted twice and is the destination of two edges.
C4_Witness ==
  \E M \in MapEntries : \E k1, k2 \in 1..Len(edges[M]) :
    /\ k1 # k2
    /\ edges[M][k1].destination = edges[M][k2].destination
    /\ edges[M][k1].destination.parent = obj[M].link
    /\ ~edges[M][k1].destination.isNull
    /\ edges[M][k1].source.parent # edges[M][k2].source.parent

-----------------------------------------------------------------------------
\* The pending writes of the map just closed that had no edge of the scope
\* leaving their source node when the closing began.
FlushedBy(M) ==
  {i \in 1..Len(writeQueue[M]) :
     ~HasSource(last.pre.edges[M], writeQueue[M][i][1].parent)}

\* What the parent scope P of the closed map M shows of one routeWrite
\* (exit OUT_ connector, to, writtenValue) per routed write.
ParentTookWrites(M, P, routed) ==
  LET out(i) == [parent |-> obj[M].link, name |-> OutName(writeQueue[M][i][3])]
  IN CASE obj[P].type = "MapEntry" ->
            /\ Len(writeQueue[P]) = Len(last.pre.writeQueue[P]) + Cardinality(routed)
            /\ \A i \in routed :
                 Cardinality({j \in NewIn(writeQueue[P], last.pre.writeQueue[P]) :
                    /\ writeQueue[P][j][2] = writeQueue[M][i][2]
                    /\ writeQueue[P][j][3] = writeQueue[M][i][3]}) = 1
            /\ \A i \in routed :
                 Cardinality({k \in NewIn(edges[P], last.pre.edges[P]) :
                    /\ ConnEq(edges[P][k].source, out(i))
                    /\ \E j \in NewIn(writeQueue[P], last.pre.writeQueue[P]) :
                         /\ writeQueue[P][j][2] = writeQueue[M][i][2]
                         /\ edges[P][k].destination.parent = writeQueue[P][j][1].parent})
                 = 1
       [] obj[P].type = "ConsumeEntry" ->
            Cardinality({k \in NewIn(edges[1], last.pre.edges[1]) :
               /\ edges[1][k].source.parent = obj[M].link
               /\ edges[1][k].destination.parent = obj[P].link}) = Cardinality(routed)
       [] OTHER ->
            /\ Cardinality({k \in NewIn(edges[P], last.pre.edges[P]) :
                  edges[P][k].source.parent = obj[M].link}) = Cardinality(routed)
            /\ \A i \in routed :
                 Cardinality({k \in NewIn(edges[P], last.pre.edges[P]) :
                    /\ ConnEq(edges[P][k].source, out(i))
                    /\ edges[P][k].destination = writeQueue[M][i][2]}) = 1

\* C5: during connectDanglingNodes a pending write is routed out if and
\* only if no edge inside the scope has the write's source node as its
\* source; a routed write adds exactly one edge from its source to an IN_
\* connector on the exit and causes exactly one routeWrite(exit OUT_
\* connector, to, writtenValue) on the parent scope; a non-routed write adds
\* nothing.
C5_FlushPendingWrites ==
  last.op = "closeMap" =>
    LET M == last.scope
        added == NewIn(edges[M], last.pre.edges[M])
    IN /\ \A i \in 1..Len(writeQueue[M]) :
            LET w == writeQueue[M][i]
                mine == {k \in added : edges[M][k].source.parent = w[1].parent}
            IN IF i \in FlushedBy(M)
               THEN /\ Cardinality(mine) = 1
                    /\ \A k \in mine :
                         /\ edges[M][k].source = w[1]
                         /\ edges[M][k].destination.parent = obj[M].link
                         /\ edges[M][k].destination.name = InName(w[3])
               ELSE mine = {}
       /\ ParentTookWrites(M, obj[M].parent, FlushedBy(M))

\* A map was closed holding one pending write that had been read inside it
\* and one that had not.
C5_Witness ==
  /\ last.op = "closeMap"
  /\ \E i, j \in 1..Len(writeQueue[last.scope]) :
       /\ i \in FlushedBy(last.scope)
       /\ j \notin FlushedBy(last.scope)

-----------------------------------------------------------------------------
\* C6: routeWrite(from, to, writtenValue) on a MapEntry or ConsumeEntry adds
\* no edge to any scope at the time of the call; the write is only recorded
\* as one pending (from, to, writtenValue) entry on that scope's queue, with
\* the destination connector's subset cleared.
C6_WriteIsOnlyQueued ==
  (last.op = "routeWrite" /\ obj[last.scope].type \in EntryTypes)
  => /\ \A s \in 1..Len(last.pre.obj) : edges[s] = last.pre.edges[s]
     /\ writeQueue[last.scope] =
          Append(last.pre.writeQueue[last.scope],
                 <<last.from, setRanges(last.to, <<>>), last.value>>)

-----------------------------------------------------------------------------
\* The entries from scope s up to, not including, the first scope in which
\* v was already mapped before the call (or the State).
RECURSIVE Threaded(_, _, _)
Threaded(G, s, v) ==
  IF G.obj[s].type \notin EntryTypes \/ Mapped(G, s, v) THEN {}
  ELSE {s} \cup Threaded(G, G.obj[s].parent, v)

\* The connector that stood for v in scope P when the lookup returned.
OuterConnector(P, v) ==
  IF obj[P].type \in EntryTypes \/ Mapped(Graph, P, v)
  THEN lut[P][valueToString(v)]
  ELSE setData(NullConnector(Len(last.pre.obj) + 1), ArrayName(v))

\* C7: the first lookup(v) on a MapEntry or ConsumeEntry that lies k levels
\* below its State, with v unmapped at each of those levels, creates at each
\* level exactly one IN_<v> input connector and one OUT_<v> output connector
\* on that level's entry node and exactly one edge from the outer connector
\* to IN_<v>, recorded in that level's parent scope, and caches OUT_<v> as
\* the binding of v at that level.
C7_LookupThreading ==
  (last.op = "lookup" /\ obj[last.scope].type \in EntryTypes)
  => LET v == last.value
         pre == last.pre
         levels == Threaded(pre, last.scope, v)
     IN /\ \A E \in levels :
             LET P == obj[E].parent
                 in == setData(NamedConnector(E, InName(v)), OuterConnector(P, v).data)
                 hop == {k \in NewIn(edges[1], pre.edges[1]) :
                           edges[1][k].destination.parent = E}
             IN /\ obj[E].inConnectors = Append(pre.obj[E].inConnectors, in)
                /\ Len(obj[E].outConnectors) = Len(pre.obj[E].outConnectors) + 1
                /\ obj[E].outConnectors[Len(obj[E].outConnectors)].name = OutName(v)
                /\ lut[E][valueToString(v)] =
                     obj[E].outConnectors[Len(obj[E].outConnectors)]
                /\ Cardinality(hop) = 1
                /\ \A k \in hop : edges[1][k] = MultiEdge(OuterConnector(P, v), in)
                /\ obj[P].type = "MapEntry" =>
                     edges[P] = Append(pre.edges[P], MultiEdge(OuterConnector(P, v), in))
        /\ Len(edges[1]) = Len(pre.edges[1]) + Cardinality(levels)
        /\ edges[last.scope] = pre.edges[last.scope]
        /\ last.ret = lut[last.scope][valueToString(v)]

\* A first lookup was threaded through two levels, both unmapped before.
C7_Witness ==
  /\ last.op = "lookup"
  /\ obj[last.scope].type \in EntryTypes
  /\ Cardinality(Threaded(last.pre, last.scope, last.value)) = 2
  /\ obj[obj[obj[last.scope].parent].parent].type = "State"

-----------------------------------------------------------------------------
\* C8: routeWrite(from, to, v) on a State resolves immediately: it adds
\* exactly one edge from 'from' to the Access node bound to the target
\* container and caches a further output connector of that same Access node
\* as the binding of v, so that a following lookup(v) on the State returns
\* that connector without inserting a new Access node.
C8_StateWriteResolves ==
  /\ (last.op = "routeWrite" /\ obj[last.scope].type = "State")
     => LET T == last.to.parent
            key == valueToString(last.value)
        IN /\ edges[last.scope] =
                Append(last.pre.edges[last.scope], MultiEdge(last.from, last.to))
           /\ obj[T].type = "Access"
           /\ obj[T].name = ArrayName(last.value)
           /\ nodes[last.scope][Len(nodes[last.scope])] = T
           /\ key \in DOMAIN lut[last.scope]
           /\ lut[last.scope][key].parent = T
           /\ \E i \in 1..Len(obj[T].outConnectors) :
                obj[T].outConnectors[i] = lut[last.scope][key]
  /\ (last.op = "lookup" /\ prev.op = "routeWrite" /\ last.scope = prev.scope
        /\ last.value = prev.value /\ obj[last.scope].type = "State")
     => /\ last.ret.parent = prev.to.parent
        /\ last.ret = lut[last.scope][valueToString(last.value)]
        /\ obj = last.pre.obj
        /\ nodes = last.pre.nodes
        /\ edges = last.pre.edges

\* A value was written in the State and then looked up there.
C8_Witness ==
  /\ last.op = "lookup"
  /\ prev.op = "routeWrite"
  /\ last.scope = prev.scope
  /\ last.value = prev.value
  /\ obj[last.scope].type = "State"

-----------------------------------------------------------------------------
\* C9: after connectDanglingNodes on a map scope, including a scope with an
\* empty body in which no lookup or write ever happened, there is an edge
\* from a null-named connector on the map entry to a null-named connector
\* on its map exit.
C9_EntryExitConnected ==
  \A M \in MapEntries :
    Closed(M) =>
      \E k \in 1..Len(edges[M]) :
        /\ edges[M][k].source.parent = M
        /\ edges[M][k].source.name = "null"
        /\ edges[M][k].destination.parent = obj[M].link
        /\ edges[M][k].destination.name = "null"
        /\ \E i \in 1..Len(obj[M].outConnectors) :
             obj[M].outConnectors[i] = edges[M][k].source
        /\ \E i \in 1..Len(obj[obj[M].link].outConnectors) :
             obj[obj[M].link].outConnectors[i] = edges[M][k].destination
        /\ \E j \in 1..Len(edges[1]) : edges[1][j] = edges[M][k]

\* A map with an empty body, in which nothing was looked up or written, was
\* closed.
C9_Witness ==
  \E M \in MapEntries :
    /\ Closed(M)
    /\ nodes[M] = <<>>
    /\ writeQueue[M] = <<>>
    /\ DOMAIN lut[M] = {}
    /\ obj[M].inConnectors = <<>>

-----------------------------------------------------------------------------
\* C10: once the body of a ConsumeEntry scope has been traversed, the
\* consume entry is connected by an edge to its consume exit and every
\* contained non-boundary node has at least one incoming and one outgoing
\* edge.
C10_ConsumeClosure ==
  \A C \in ConsumeEntries :
    Closed(C) =>
      /\ \E k \in 1..Len(edges[1]) :
           /\ edges[1][k].source.parent = C
           /\ edges[1][k].destination.parent = obj[C].link
      /\ \A n \in Ids :
           (obj[n].parent = C /\ ~Boundary(n))
           => HasDestination(edges[1], n) /\ HasSource(edges[1], n)

-----------------------------------------------------------------------------
\* The entry nodes from scope s up to, not including, the State.
RECURSIVE EntryChain(_)
EntryChain(s) ==
  IF obj[s].type \notin EntryTypes THEN {} ELSE {s} \cup EntryChain(obj[s].parent)

\* Connector c belongs to an Access node of container v that lies in the
\* State itself, not in a nested scope.
StateProducer(c, v) ==
  /\ obj[c.parent].type = "Access"
  /\ obj[c.parent].name = ArrayName(v)
  /\ obj[c.parent].parent \notin MapEntries \cup ConsumeEntries
  /\ \E i \in 1..Len(nodes[1]) : nodes[1][i] = c.parent

\* The edges the State's list gained by the last call.
AddedEdges == NewIn(edges[1], last.pre.edges[1])

\* C11 (as stated): addDependency(v, c) on a map or consume scope in which
\* v is not visible adds one ordering edge at every scope level from that
\* scope up to the State, through the null connectors of each entry node,
\* the last one starting at the State's producer of v, and every edge added
\* is a dependency edge.
C11_DependencyEveryLevel ==
  (last.op = "addDependency" /\ obj[last.scope].type \in EntryTypes
     /\ ~Mapped(last.pre, last.scope, last.value))
  => /\ Cardinality(AddedEdges) = Cardinality(EntryChain(last.scope)) + 1
     /\ \A E \in EntryChain(last.scope) :
          Cardinality({k \in AddedEdges : edges[1][k].source = NullConnector(E)}) = 1
     /\ Cardinality({k \in AddedEdges : StateProducer(edges[1][k].source, last.value)}) = 1
     /\ \A k \in AddedEdges : edges[1][k].depEdge

\* C11 (amended): the edges are added at every level from that scope up to
\* the first enclosing scope in which v is already visible, or the State if
\* there is none; the last edge starts at the connector that stands for v in
\* that scope (at the State, its producer of v); every level's edge leaves
\* the entry's null connector for the null connector of the level below (for
\* c at the level of the call), is recorded in that level's map, and every
\* edge added is a dependency edge.
C11_DependencyThreading ==
  (last.op = "addDependency" /\ obj[last.scope].type \in EntryTypes
     /\ ~Mapped(last.pre, last.scope, last.value))
  => LET v == last.value
         pre == last.pre
         levels == Threaded(pre, last.scope, v)
         below(E) == IF E = last.scope THEN last.to
                     ELSE NullConnector(CHOOSE D \in levels : obj[D].parent = E)
         hop(E) == makeDependence(MultiEdge(NullConnector(E), below(E)))
         topLevel == CHOOSE E \in levels : obj[E].parent \notin levels
         top == obj[topLevel].parent
         final == {k \in AddedEdges : edges[1][k].source.parent \notin levels}
     IN /\ Cardinality(AddedEdges) = Cardinality(levels) + 1
        /\ \A k \in AddedEdges : edges[1][k].depEdge
        /\ \A E \in levels :
             /\ Cardinality({k \in AddedEdges : edges[1][k] = hop(E)}) = 1
             /\ obj[E].type = "MapEntry" =>
                  Cardinality({k \in NewIn(edges[E], pre.edges[E]) :
                                 edges[E][k] = hop(E)}) = 1
             /\ \E i \in 1..Len(obj[E].inConnectors) :
                  obj[E].inConnectors[i] = NullConnector(E)
             /\ \E i \in 1..Len(obj[E].outConnectors) :
                  obj[E].outConnectors[i] = NullConnector(E)
        /\ Cardinality(final) = 1
        /\ \A k \in final :
             /\ edges[1][k].destination = NullConnector(topLevel)
             /\ IF Mapped(pre, top, v)
                THEN edges[1][k].source = pre.lut[top][valueToString(v)]
                ELSE /\ StateProducer(edges[1][k].source, v)
                     /\ edges[1][k].source.parent > Len(pre.obj)
             /\ obj[top].type = "MapEntry" =>
                  edges[top][Len(edges[top])] = edges[1][k]

\* A dependency on a value visible in no enclosing scope was requested two
\* levels below the State and reached a new Access node of the State.
C11_Witness ==
  /\ last.op = "addDependency"
  /\ obj[last.scope].type \in EntryTypes
  /\ Cardinality(Threaded(last.pre, last.scope, last.value)) = 2
  /\ obj[obj[obj[last.scope].parent].parent].type = "State"
  /\ ~Mapped(last.pre, 1, last.value)
  /\ \E k \in AddedEdges :
       edges[1][k].depEdge /\ StateProducer(edges[1][k].source, last.value)

-----------------------------------------------------------------------------
\* The text of dimension i (from 1) of an array type, and the dimensions to
\* its right.
IntsUpTo(a, i) == Cardinality({k \in 1..i : a.shape[k]})
DimText(a, i) ==
  IF a.shape[i] THEN to_string(a.integers[IntsUpTo(a, i)])
  ELSE a.symbols[i - IntsUpTo(a, i)]
DimsRightOf(a, i) == [k \in 1..(Len(a.shape) - i) |-> DimText(a, i + k)]

\* Two products are the same when they have the same factors, 1 aside.
Count(q, f) == Cardinality({k \in 1..Len(q) : q[k] = f})
SameProduct(p, q) ==
  \A f \in (Range(p) \cup Range(q)) \ {"1"} : Count(p, f) = Count(q, f)

EmittedStrides == jemit[2].value

\* C12: for every array shape of rank n >= 1 whose dimensions are integers
\* or symbols, the emitted stride list has n entries, its last entry is 1,
\* and entry i is the product of all dimensions to the right of dimension i.
C12_RowMajorStrides ==
  (pc.phase = "emitted" /\ Len(array.shape) >= 1)
  => /\ Len(EmittedStrides) = Len(array.shape)
     /\ SameProduct(EmittedStrides[Len(array.shape)], <<>>)
     /\ \A i \in 1..Len(array.shape) :
          SameProduct(EmittedStrides[i], DimsRightOf(array, i))

-----------------------------------------------------------------------------
\* C13: lookup(v) of a value that denotes no data container and has no
\* producer in any scope up to the State fails with a reported error; it
\* inserts no Access node and returns no connector.
C13_LookupUndefinedFails ==
  (last.op = "lookup" /\ last.value \in NoContainer
     /\ MissesInState(last.pre, last.scope, last.value))
  => /\ diag # last.pre.diag
     /\ obj = last.pre.obj
     /\ nodes = last.pre.nodes
     /\ last.ret = NoConn

-----------------------------------------------------------------------------
\* Connector c asks for a slot of list cs that holds another definition.
Conflicting(cs, c) ==
  \E i \in 1..Len(cs) :
    cs[i].name = c.name /\ cs[i].parent = c.parent /\ cs[i] # c
Holds(cs, c) == \E i \in 1..Len(cs) : cs[i] = c

\* C14: inserting a connector with the name and parent of a connector
\* already on the node but a conflicting definition is reported as an error
\* and the conflicting connector is not stored on the node.
C14_ConflictReported ==
  /\ (last.op = "addInConnector"
        /\ Conflicting(last.pre.obj[last.scope].inConnectors, last.to))
     => /\ diag # last.pre.diag
        /\ ~Holds(obj[last.scope].inConnectors, last.to)
  /\ (last.op = "addOutConnector"
        /\ Conflicting(last.pre.obj[last.scope].outConnectors, last.to))
     => /\ diag # last.pre.diag
        /\ ~Holds(obj[last.scope].outConnectors, last.to)

-----------------------------------------------------------------------------
\* What the emission stream holds of unit u.
OutputOf(u) == SelectSeq(jemit, LAMBDA t : t.unit = u)

\* C15: whenever translation of a unit fails (unsupported element type,
\* multiple return values), no output has been emitted for that unit.
C15_NoOutputOnFailure ==
  result = "failure" => OutputOf(pc.unit) = <<>>

-----------------------------------------------------------------------------
\* C18: a program with two top-level units is rejected with an error before
\* any graph is built or any output is emitted.
C18_TwoUnitsRejected ==
  Len(prog) = 2 =>
    /\ jemit = <<>>
    /\ pc.phase = "done" => (result = "failure" /\ diag # {})

-----------------------------------------------------------------------------
\* The instruction kinds translateToSDFG(StateNode) has a branch for.
TranslatedKinds == {"sdfg.tasklet", "sdfg.sdfg", "sdfg.map", "sdfg.consume",
                    "sdfg.store", "sdfg.copy", "sdfg.call"}

\* C19: every instruction of a state body whose kind has no translation
\* rule makes translation fail with a reported error; none is skipped
\* while translation reports success.
C19_UnsupportedReported ==
  /\ result = "success" =>
       \A u \in 1..Len(prog) : \A i \in 1..Len(prog[u].body) :
         prog[u].body[i].kind \in TranslatedKinds
  /\ \A i \in 1..(pc.op - 1) :
       (pc.phase = "nodes" /\ prog[pc.unit].body[i].kind \notin TranslatedKinds)
       => (result = "failure" /\ diag # {})

-----------------------------------------------------------------------------
\* The Access nodes a map holds in its own node list: one per write issued
\* in it or routed into it.
LocalAccesses(M) == {n \in Range(nodes[M]) : obj[n].type = "Access"}
Named(cs) == {i \in 1..Len(cs) : ~cs[i].isNull}

\* The map just closed lies directly in the State, holds no nested scope
\* and exactly one write, and nothing in it read the written data.
SingleWriteMapClosed ==
  /\ last.op = "closeMap"
  /\ obj[obj[last.scope].parent].type = "State"
  /\ \A n \in Range(nodes[last.scope]) : ~Boundary(n)
  /\ Cardinality(LocalAccesses(last.scope)) = 1
  /\ \A a \in LocalAccesses(last.scope) : ~HasSource(last.pre.edges[last.scope], a)

\* C16: for a single map directly inside a State that contains exactly one
\* write to an outer container and no read of it, closing the map yields
\* exactly one IN_*/OUT_* connector pair on the map exit and exactly one
\* edge from the map exit to an Access node bound to the outer container.
C16_SingleWriteRoutedOut ==
  SingleWriteMapClosed =>
    LET M == last.scope
        X == obj[M].link
        a == CHOOSE n \in LocalAccesses(M) : TRUE
        v == CHOOSE u \in Values : ArrayName(u) = obj[a].name
        leaving == {k \in 1..Len(edges[1]) : edges[1][k].source.parent = X}
    IN /\ Cardinality(Named(obj[X].inConnectors)) = 1
       /\ Cardinality(Named(obj[X].outConnectors)) = 1
       /\ \A i \in Named(obj[X].inConnectors) :
            obj[X].inConnectors[i] = setData(NamedConnector(X, InName(v)), ArrayName(v))
       /\ \A i \in Named(obj[X].outConnectors) :
            obj[X].outConnectors[i] = setData(NamedConnector(X, OutName(v)), ArrayName(v))
       /\ Cardinality(leaving) = 1
       /\ \A k \in leaving :
            LET T == edges[1][k].destination.parent
            IN /\ Holds(obj[X].outConnectors, edges[1][k].source)
               /\ edges[1][k].source.name = OutName(v)
               /\ obj[T].type = "Access"
               /\ obj[T].name = ArrayName(v)
               /\ edges[1][k].destination.data = ArrayName(v)
               /\ T \in Range(nodes[1])
               /\ T \notin Range(nodes[M])
               /\ Holds(obj[T].inConnectors, [edges[1][k].destination EXCEPT !.ranges = <<"0">>])

\* Such a map was closed: its body is the tasklet and the Access node of
\* the one write.
C16_Witness ==
  /\ SingleWriteMapClosed
  /\ Len(nodes[last.scope]) = 2
  /\ Len(writeQueue[last.scope]) = 1

-----------------------------------------------------------------------------
\* The scopes opened directly in map M.
NestedIn(M) == {n \in Range(nodes[M]) : obj[n].type \in EntryTypes}
\* The edges of the State whose source is a connector of node n.
Leaving(n) == {k \in 1..Len(edges[1]) : edges[1][k].source.parent = n}

\* The outer map just closed lies directly in the State and holds exactly
\* one nested map, closed before it; the inner map holds no nested scope
\* and exactly one write, which nothing in the inner map read; no write was
\* issued in the outer map itself and nothing in it read what the inner map
\* handed out.
NestedWriteClosed ==
  /\ last.op = "closeMap"
  /\ obj[obj[last.scope].parent].type = "State"
  /\ Cardinality(NestedIn(last.scope)) = 1
  /\ \A N \in NestedIn(last.scope) :
       /\ obj[N].type = "MapEntry"
       /\ NestedIn(N) = {}
       /\ Cardinality(LocalAccesses(N)) = 1
       /\ \A a \in LocalAccesses(N) : \A k \in EdgesFrom(edges[N], a) :
            edges[N][k].destination.parent = obj[N].link
  /\ Cardinality(LocalAccesses(last.scope)) <= 1
  /\ \A b \in LocalAccesses(last.scope) :
       /\ ~HasSource(last.pre.edges[last.scope], b)
       /\ \A k \in EdgesInto(edges[last.scope], b) :
            obj[edges[last.scope][k].source.parent].type = "MapExit"

-----------------------------------------------------------------------------
\* C20: within the State, node ids come from one counter starting at 0:
\* every node of the State's node list, including the nodes added inside
\* nested map or consume scopes and those added by routeWrite, has an id
\* equal to its position in the list, so ids are unique and without gaps.
C20_SequentialIds ==
  /\ \A i \in 1..Len(nodes[1]) : obj[nodes[1][i]].id = i - 1
  /\ \A i, j \in 1..Len(nodes[1]) : nodes[1][i] = nodes[1][j] => i = j
  /\ \A n \in Ids : obj[n].id # -1 => \E i \in 1..Len(nodes[1]) : nodes[1][i] = n

\* The State's list holds a node added inside a consume scope, a node added
\* inside a map nested in another scope, and the target Access node that
\* the State's routeWrite added for a write routed out of the nested scopes.
C20_Witness ==
  /\ \E i \in 1..Len(nodes[1]) : obj[nodes[1][i]].parent \in ConsumeEntries
  /\ \E i \in 1..Len(nodes[1]) :
       /\ ~Boundary(nodes[1][i])
       /\ obj[nodes[1][i]].parent \in MapEntries
       /\ obj[obj[nodes[1][i]].parent].parent # 1
  /\ \E i \in 1..Len(nodes[1]) : \E k \in 1..Len(edges[1]) :
       /\ obj[nodes[1][i]].type = "Access"
       /\ edges[1][k].destination.parent = nodes[1][i]
       /\ obj[edges[1][k].source.parent].type \in ExitTypes
       /\ obj[nodes[1][i]].id = i - 1

-----------------------------------------------------------------------------
\* What a serialized edge shows under a key.
Printed(key) == {k \in 1..Len(jemit) : jemit[k].key = key}
SubsetKeys == {"subset", "src_subset", "other_subset", "dst_subset"}

\* C21: a dependency edge is serialized with src_connector and
\* dst_connector as the unquoted literal null and carries no data name and
\* no subset ranges, whatever data and ranges its endpoint connectors hold.
C21_DependencyEdgeBare ==
  (pc.phase = "emitted" /\ edge.depEdge)
  => /\ \A k \in Printed("src_connector") \cup Printed("dst_connector") :
          jemit[k].text = "null" /\ ~jemit[k].quoted
     /\ Printed("data") = {}
     /\ \A key \in SubsetKeys : \A k \in Printed(key) :
          jemit[k].text = "null" /\ jemit[k].ranges = <<>>

-----------------------------------------------------------------------------
\* C22: after any sequence of addArray and addArg calls, no two entries of
\* an SDFG's array list have the same name.
C22_ArrayNamesUnique ==
  \A g \in 1..Len(sdfgs) :
    \A i, j \in 1..Len(sdfgs[g].arrays) :
      i # j => sdfgs[g].arrays[i].name # sdfgs[g].arrays[j].name

-----------------------------------------------------------------------------
\* C23: serializing a graph does not modify it: after emit, every SDFG
\* (nested ones included) has the same symbols, arrays, states, nodes and
\* edges as before, so emitting the same graph twice in a row yields the
\* same document.
C23_EmitModifiesNothing ==
  /\ last.op = "emit" => sdfgs = last.pre
  /\ (last.op = "emit" /\ prev.op = "emit") => last.doc = prev.doc

-----------------------------------------------------------------------------
\* C30: when addState is given a state whose name is already registered in
\* the SDFG, an error is reported and the SDFG's state list and name table
\* are left unchanged.
C30_DuplicateStateRejected ==
  (last.op = "addState" /\ last.value \in DOMAIN last.pre[last.scope].lut)
  => /\ "Duplicate ID in SDFGImpl::addState" \in diag
     /\ sdfgs[last.scope].states = last.pre[last.scope].states
     /\ sdfgs[last.scope].lut = last.pre[last.scope].lut

-----------------------------------------------------------------------------
\* The operations the lifter has a Python expression for, and the tasklets
\* it lifts: at most two operations, the first of them known.
Lifted == {"arith.addi", "arith.muli", "arith.constant", "arith.index_cast",
           "sdfg.store", "sdfg.load", "sdfg.sym", "sdfg.return"}
Liftable(t) == Len(t.ops) <= 2 /\ t.ops[1] \in Lifted
TextOf(key) == jemit[CHOOSE k \in Printed(key) : TRUE].text

-----------------------------------------------------------------------------
\* C25: verification fails (returns failure) for every tasklet and every
\* nested SDFG whose number of operands differs from the number of
\* arguments of its body.
C25_MismatchFailsVerification ==
  (pc.phase = "verified" /\ dialectOp.operands # dialectOp.arguments)
  => result = "failure"

-----------------------------------------------------------------------------
\* The edges of a scope's list as pairs <<source node, destination node>>.
Arcs(es) == {<<es[k].source.parent, es[k].destination.parent>> : k \in 1..Len(es)}

\* The nodes reached from the nodes of S along the arcs of E.
RECURSIVE ReachedFrom(_, _)
ReachedFrom(S, E) ==
  LET T == S \cup {a[2] : a \in {b \in E : b[1] \in S}}
  IN IF T = S THEN S ELSE ReachedFrom(T, E)

\* The arcs left when arcs leaving a node without ingoing arc are removed
\* until none is: an arc is left exactly when the graph has a cycle.
RECURSIVE Core(_)
Core(E) ==
  LET F == {a \in E : \E b \in E : b[2] = a[1]}
  IN IF F = E THEN E ELSE Core(F)

Acyclic(E) == Core(E) = {}

States == {n \in Ids : obj[n].type = "State"}

\* C27: after any sequence of lookup, routeWrite, addDependency and
\* scope-closing operations issued in program order, the edges of each
\* State (those added inside nested map and consume scopes included) form
\* an acyclic directed graph over its nodes.
C27_StateGraphAcyclic == \A s \in States : Acyclic(Arcs(edges[s]))

-----------------------------------------------------------------------------
\* The nodes downstream of node x: those reached from it by one arc or more.
Downstream(x, E) == ReachedFrom({a[2] : a \in {b \in E : b[1] = x}}, E)

\* C26: for every value v written by routeWrite inside a map scope, after
\* connectDanglingNodes at least one write of v has been routed through
\* the map exit to the parent scope, so that lookup(v) in the parent
\* afterwards resolves to a node downstream of the map exit; this includes
\* the case where the last write of v is later read inside the same map.
C26_WrittenValueLeavesMap ==
  last.op = "closeMap"
  => \A i \in 1..Len(writeQueue[last.scope]) :
       LET M == last.scope
           v == writeQueue[M][i][3]
           R == ScopeNode_lookup(Graph, obj[M].parent, v)
       IN /\ \E k \in 1..Len(obj[obj[M].link].inConnectors) :
               obj[obj[M].link].inConnectors[k].name = InName(v)
          /\ R.r.parent \in Downstream(obj[M].link, Arcs(R.g.edges[getState(Graph, M)]))

-----------------------------------------------------------------------------
\* C28: after routeWrite(from, to, v) on a scope (State, MapEntry or
\* ConsumeEntry), the next lookup(v) on that same scope returns an output
\* connector of the node that received this write, not a connector that
\* was bound to v before the write.  A node that received the write is
\* taken to be any node the write was routed to: one downstream of the
\* node of from.
C28_LookupSeesWrite ==
  (prev.op = "routeWrite" /\ last.op = "lookup"
     /\ last.scope = prev.scope /\ last.value = prev.value)
  => /\ \E s \in States :
          last.ret.parent \in Downstream(prev.from.parent, Arcs(edges[s]))
     /\ \E k \in 1..Len(obj[last.ret.parent].outConnectors) :
          obj[last.ret.parent].outConnectors[k] = last.ret

-----------------------------------------------------------------------------
\* C29: every edge in a State's edge list has both endpoint connectors on
\* nodes contained in that State's node list, the Access nodes the engine
\* creates in lookup and routeWrite included (callers add tasklets and
\* entry/exit nodes to their scope before wiring them).
C29_EdgeEndpointsInState ==
  \A s \in States : \A k \in 1..Len(edges[s]) :
    /\ edges[s][k].source.parent \in Range(nodes[s])
    /\ edges[s][k].destination.parent \in Range(nodes[s])

\* A write issued inside a map was routed out to the State: the target
\* Access node, which only the engine adds, is an endpoint of a State edge.
C29_Witness ==
  /\ last.op = "closeMap"
  /\ \E s \in States : \E k \in 1..Len(edges[s]) :
       /\ obj[edges[s][k].source.parent].type = "MapExit"
       /\ obj[edges[s][k].destination.parent].type = "Access"
       /\ edges[s][k].destination.parent \in Range(nodes[s])

====
